---- MODULE Spec2Model ----
(***************************************************************************)
(* A model of the PT-ICM Ising solver of src/src/ising.rs.                 *)
(*                                                                         *)
(* Arithmetic.  The program computes energies in f32.  Every input value   *)
(* of the model is an integer and the program only ever divides by 2, 4    *)
(* and 8, so every intermediate value is a multiple of 1/8 of small        *)
(* magnitude: f32 represents all of them exactly.  The model stores the    *)
(* f32 value x as the integer x * Unit, and a division by 2^k as the       *)
(* integer division of that scaled value, which is exact here.             *)
(***************************************************************************)
EXTENDS Integers, Sequences, FiniteSets, TLC

\* Largest number of spins of an instance.
MaxN == 3
\* Largest number of "i j K" lines of an instance file.
MaxLines == 2
\* Largest length of a spin vector that is bit-packed.
MaxPackLen == 66
\* Largest length up to which every spin vector is bit-packed.
MaxFullLen == 8
\* Bits per byte of as_bytes and per word of as_u64_vec.
ByteBits == 8
WordBits == 64
\* Scaled integers per 1.0: the finest division of the program is K / 8.0.
Unit == 8
\* The values K an input line can hold.
KVals == {-1, 4}

VARIABLES
    pc,         \* position of the program in the scenario being run
    input,      \* the external input: instance file contents and flags
    instance,   \* BqmIsingInstance
    state,      \* IsingState the instance operations are applied to
    ret,        \* the value the last operation returned
    g,          \* PtIcmRunner.g, the connectivity graph
    replica1,   \* the two replicas handed to houdayer_cluster_move
    replica2,
    before,     \* the two replicas as they were when the last move was called
    params,     \* PtIcmParams
    runner,     \* PtIcmRunner: beta_vec, meas_init, lo_beta_idx (its graph is g)
    pt_state,   \* the replica chains: pt_state[chain].states[beta index]
    sweep,      \* the loop variable i of pt_loop
    chain,      \* the chain the ensemble sweep has come to
    minimum_e,  \* pt_loop's minimum_e: Option<f32>
    pt_results, \* PtIcmMinResults
    pt_samples, \* PtIcmThermalSamples
    calls,      \* history: what the last measurement pass called
    seen_min,   \* history: the least energy any measurement pass has seen
    rng_vec,    \* run_parallel: the RNG stream of every (chain, beta)
    workers,    \* the parallel sweep: how far the worker of every chain is
    passes,     \* history: the passes of the loop made so far
    opt         \* pt_optimize_beta: its loop variable and its local variables

icmVars == <<g, replica1, replica2, before>>

parVars == <<rng_vec, workers>>

runVars == <<params, runner, pt_state, sweep, chain, minimum_e, pt_results,
             pt_samples, calls, seen_min, rng_vec, workers, passes, opt>>

vars == <<pc, input, instance, state, ret, g, replica1, replica2, before,
          params, runner, pt_state, sweep, chain, minimum_e, pt_results,
          pt_samples, calls, seen_min, rng_vec, workers, passes, opt>>

None == [none |-> TRUE]

\* Option<T>: None and Some(v).
OptNone == [some |-> FALSE, val |-> 0]
OptSome(v) == [some |-> TRUE, val |-> v]

----------------------------------------------------------------------------
(* Helpers: folds over sequences and finite sets of integers.              *)

RECURSIVE SumSeq(_)
SumSeq(s) == IF s = <<>> THEN 0 ELSE Head(s) + SumSeq(Tail(s))

RECURSIVE SortedSeq(_)
SortedSeq(S) ==
    IF S = {} THEN <<>>
    ELSE LET m == CHOOSE x \in S : \A y \in S : x <= y
         IN  <<m>> \o SortedSeq(S \ {m})

Range(s) == {s[k] : k \in 1..Len(s)}

----------------------------------------------------------------------------
(* The instance file and its reader.                                       *)

\* The cells (i, j), i <= j, a file over n spins can give a line for.
Cells(n) == {c \in (0..(n-1)) \X (0..(n-1)) : c[1] <= c[2]}

\* All files of at most MaxLines lines: a map from cells to K.
Files(n) ==
    UNION {[cs -> KVals] : cs \in {x \in SUBSET Cells(n) : Cardinality(x) <= MaxLines}}

\* Row i of the adjacency list the reader returns: a map neighbour -> K.
\* A line "i j K" defines J_ij = J_ji = K, and h_i = K when i = j.
read_adjacency_list_from_file(file, n) ==
    [i \in 0..(n-1) |->
        LET js == {j \in 0..(n-1) : <<i, j>> \in DOMAIN file \/ <<j, i>> \in DOMAIN file}
        IN  [j \in js |-> Unit * (IF i <= j THEN file[<<i, j>>] ELSE file[<<j, i>>])]]

\* `neighborhood.iter()`: the entries (j, K) of a row, in ascending j.
Neighborhood(adj_list, i) ==
    LET js == SortedSeq(DOMAIN adj_list[i])
    IN  [k \in 1..Len(js) |-> <<js[k], adj_list[i][js[k]]>>]

----------------------------------------------------------------------------
(* BqmIsingInstance: construction.                                         *)

\* What the loop body of from_instance_file does for the entry e = (j, K) of
\* row i: the amounts added to offset and bias[i], the triplet given to the
\* sparse matrix and the entry pushed on coupling_vecs[i] (<<>>: none).
FileEntry(i, e, qubo) ==
    LET j == e[1]
        K == e[2]
    IN  IF qubo
        THEN IF i # j
             THEN [offset |-> K \div 8, bias |-> K \div 4, set_bias |-> FALSE,
                   triplet |-> <<<<i, j, K \div 4>>>>, vec |-> <<<<j, K \div 4>>>>]
             ELSE [offset |-> K \div 2, bias |-> K \div 2, set_bias |-> FALSE,
                   triplet |-> <<>>, vec |-> <<<<j, K \div 2>>>>]
        ELSE IF i # j
             THEN [offset |-> 0, bias |-> 0, set_bias |-> FALSE,
                   triplet |-> <<<<i, j, K>>>>, vec |-> <<<<j, K>>>>]
             ELSE [offset |-> 0, bias |-> K, set_bias |-> TRUE,
                   triplet |-> <<>>, vec |-> <<>>]

\* The inner loop over a row: folds FileEntry over the row's entries.
RECURSIVE FileRow(_, _, _, _)
FileRow(i, nb, qubo, acc) ==
    IF nb = <<>> THEN acc
    ELSE LET r == FileEntry(i, Head(nb), qubo)
         IN  FileRow(i, Tail(nb), qubo,
                     [offset   |-> acc.offset + r.offset,
                      bias     |-> IF r.set_bias THEN r.bias ELSE acc.bias + r.bias,
                      triplets |-> acc.triplets \o r.triplet,
                      vec      |-> acc.vec \o r.vec])

\* TriMat::to_csr: the stored entries of the matrix, by (row, column).  The
\* rows of an adjacency list hold each column once, so no triplets are summed.
to_csr(n, triplets) ==
    [shape |-> <<n, n>>,
     data  |-> [c \in {<<t[1], t[2]>> : t \in Range(triplets)} |->
                   (CHOOSE t \in Range(triplets) : t[1] = c[1] /\ t[2] = c[2])[3]]]

RECURSIVE ConcatRows(_, _)
ConcatRows(rows, n) ==
    IF n = 0 THEN <<>> ELSE ConcatRows(rows, n - 1) \o rows[n - 1].triplets

from_instance_file(adj_list, qubo) ==
    LET n    == Cardinality(DOMAIN adj_list)
        rows == [i \in 0..(n-1) |->
                    FileRow(i, Neighborhood(adj_list, i), qubo,
                            [offset |-> 0, bias |-> 0, triplets |-> <<>>, vec |-> <<>>])]
    IN  [offset        |-> SumSeq([k \in 1..n |-> rows[k-1].offset]),
         bias          |-> [i \in 0..(n-1) |-> rows[i].bias],
         coupling      |-> to_csr(n, ConcatRows(rows, n)),
         coupling_vecs |-> [i \in 0..(n-1) |-> rows[i].vec]]

\* `row.iter()` of row i of a CsMat: its stored entries (j, K), ascending j.
CsRow(coupling, i) ==
    LET js == SortedSeq({c[2] : c \in {d \in DOMAIN coupling.data : d[1] = i}})
    IN  [k \in 1..Len(js) |-> <<js[k], coupling.data[<<i, js[k]>>]>>]

\* new_zero_bias panics on a matrix that is not square or stores a diagonal.
new_zero_bias_panics(coupling) ==
    \/ coupling.shape[1] # coupling.shape[2]
    \/ \E c \in DOMAIN coupling.data : c[1] = c[2]

new_zero_bias(coupling) ==
    LET n1 == coupling.shape[1]
    IN  [offset        |-> 0,
         bias          |-> [i \in 0..(n1-1) |-> 0],
         coupling      |-> coupling,
         coupling_vecs |-> [i \in 0..(n1-1) |-> CsRow(coupling, i)]]

size(inst) == Cardinality(DOMAIN inst.bias)

----------------------------------------------------------------------------
(* BqmIsingInstance: energies.  A state is [arr, energy, energy_init].     *)

\* The inner loop of energy_ref over a row: h += (K * sj) / 2.0.
RECURSIVE RowField(_, _, _)
RowField(row, arr, h) ==
    IF row = <<>> THEN h
    ELSE RowField(Tail(row), arr, h + ((Head(row)[2] * arr[Head(row)[1]]) \div 2))

\* The buggy variant that counts every edge from both of its ends.
RECURSIVE RowFieldWhole(_, _, _)
RowFieldWhole(row, arr, h) ==
    IF row = <<>> THEN h
    ELSE RowFieldWhole(Tail(row), arr, h + (Head(row)[2] * arr[Head(row)[1]]))

energy_ref_unhalved(inst, arr) ==
    inst.offset
    + SumSeq([k \in 1..size(inst) |->
                RowFieldWhole(inst.coupling_vecs[k-1], arr, inst.bias[k-1]) * arr[k-1]])

energy_ref(inst, arr) ==
    inst.offset
    + SumSeq([k \in 1..size(inst) |->
                RowField(inst.coupling_vecs[k-1], arr, inst.bias[k-1]) * arr[k-1]])

\* energy: the cache when it is valid, else energy_ref, stored and marked.
energy(inst, st) ==
    IF st.energy_init
    THEN [val |-> st.energy, st |-> st]
    ELSE LET total_energy == energy_ref(inst, st.arr)
         IN  [val |-> total_energy,
              st  |-> [st EXCEPT !.energy = total_energy, !.energy_init = TRUE]]

RECURSIVE RowSum(_, _, _)
RowSum(row, arr, d) ==
    IF row = <<>> THEN d
    ELSE RowSum(Tail(row), arr, d + Head(row)[2] * arr[Head(row)[1]])

delta_energy_unsigned(inst, arr, mv) ==
    RowSum(inst.coupling_vecs[mv], arr, inst.bias[mv]) * (2 * arr[mv])

delta_energy(inst, arr, mv) ==
    RowSum(inst.coupling_vecs[mv], arr, inst.bias[mv]) * ((-2) * arr[mv])

----------------------------------------------------------------------------
(* Scenario "instance": an instance is built from an input and the energy  *)
(* operations are applied to a random state of it.                         *)

\* The variables of the run are not in use.
RunIdle ==
    /\ params = None /\ runner = None /\ pt_state = None /\ sweep = 0 /\ chain = 0
    /\ minimum_e = None /\ pt_results = None /\ pt_samples = None
    /\ calls = None /\ seen_min = None
    /\ rng_vec = None /\ workers = None /\ passes = None /\ opt = None

Inputs ==
    {[n |-> n, file |-> f, how |-> h] :
        n \in 1..MaxN, f \in UNION {Files(m) : m \in 1..MaxN},
        h \in {"ising", "qubo", "csmat"}}

Init ==
    /\ pc = "input"
    /\ input \in {x \in Inputs : x.file \in Files(x.n)}
    /\ instance = None
    /\ state = None
    /\ ret = None
    /\ g = None /\ replica1 = None /\ replica2 = None /\ before = None
    /\ RunIdle

\* from_instance_file(file, qubo)
FromInstanceFile ==
    /\ pc = "input"
    /\ input.how \in {"ising", "qubo"}
    /\ instance' = from_instance_file(
                       read_adjacency_list_from_file(input.file, input.n),
                       input.how = "qubo")
    /\ pc' = "instance"
    /\ UNCHANGED <<input, state, ret, icmVars, runVars>>

\* The matrix a caller of new_zero_bias builds from the same lines: both
\* triplets (i, j, K) and (j, i, K) of every line, as make_ising_2d_instance.
InputCsMat ==
    LET adj == read_adjacency_list_from_file(input.file, input.n)
    IN  [shape |-> <<input.n, input.n>>,
         data  |-> [c \in {d \in (0..(input.n-1)) \X (0..(input.n-1)) : d[2] \in DOMAIN adj[d[1]]}
                      |-> adj[c[1]][c[2]]]]

\* new_zero_bias(coupling)
NewZeroBias ==
    /\ pc = "input"
    /\ input.how = "csmat"
    /\ IF new_zero_bias_panics(InputCsMat)
       THEN pc' = "panic" /\ UNCHANGED instance
       ELSE pc' = "instance" /\ instance' = new_zero_bias(InputCsMat)
    /\ UNCHANGED <<input, state, ret, icmVars, runVars>>

\* rand_ising_state, up to the construction of the state (line 137).
RandIsingState ==
    /\ pc = "instance"
    /\ \E arr \in [0..(size(instance)-1) -> {-1, 1}] :
          state' = [arr |-> arr, energy |-> 0, energy_init |-> FALSE]
    /\ pc' = "rand_energy"
    /\ UNCHANGED <<input, instance, ret, icmVars, runVars>>

\* instance.energy(&mut state): the call that ends rand_ising_state, and any
\* later call.
Energy ==
    /\ pc \in {"rand_energy", "state"}
    /\ LET r == energy(instance, state)
       IN  /\ state' = r.st
           /\ ret' = [op |-> "energy", val |-> r.val, cached |-> state.energy_init]
    /\ pc' = "state"
    /\ UNCHANGED <<input, instance, icmVars, runVars>>

\* instance.energy_ref(&state)
EnergyRef ==
    /\ pc = "state"
    /\ ret' = [op |-> "energy_ref", val |-> energy_ref(instance, state.arr)]
    /\ UNCHANGED <<pc, input, instance, state, icmVars, runVars>>

\* instance.delta_energy(&mut state, &mv)
DeltaEnergy ==
    /\ pc = "state"
    /\ \E mv \in 0..(size(instance)-1) :
          ret' = [op |-> "delta_energy", mv |-> mv,
                  val |-> delta_energy(instance, state.arr, mv)]
    /\ UNCHANGED <<pc, input, instance, state, icmVars, runVars>>

Next ==
    \/ FromInstanceFile
    \/ NewZeroBias
    \/ RandIsingState
    \/ Energy
    \/ EnergyRef
    \/ DeltaEnergy

Spec == Init /\ [][Next]_vars

----------------------------------------------------------------------------
(* Properties of the instance operations.                                  *)

\* uset_neg / accept_move: the state with spin i negated.
uset_neg(arr, i) == [arr EXCEPT ![i] = @ * (-1)]

Built == pc \in {"instance", "rand_energy", "state"}

\* The coupling J_ij the adjacency list holds (0 when it holds none).
J(inst, i, j) ==
    LET es == {e \in Range(inst.coupling_vecs[i]) : e[1] = j}
    IN  IF es = {} THEN 0 ELSE (CHOOSE e \in es : TRUE)[2]

SymmetricAdjacency(inst) ==
    \A i \in DOMAIN inst.bias : \A e \in Range(inst.coupling_vecs[i]) :
        <<i, e[2]>> \in Range(inst.coupling_vecs[e[1]])

NoSelfLoops(inst) ==
    \A i \in DOMAIN inst.bias : \A e \in Range(inst.coupling_vecs[i]) : e[1] # i

\* offset + sum_i h_i s_i + sum_{i<j} J_ij s_i s_j, every edge once.
Hamiltonian(inst, arr) ==
    LET n == size(inst)
        pairs == SortedSeq({p \in 0..(n * n - 1) : p \div n < p % n})
    IN  inst.offset
        + SumSeq([k \in 1..n |-> inst.bias[k-1] * arr[k-1]])
        + SumSeq([k \in 1..Len(pairs) |->
                    J(inst, pairs[k] \div n, pairs[k] % n)
                    * arr[pairs[k] \div n] * arr[pairs[k] % n]])

\* C1: on an instance with a symmetric adjacency list without self-loops,
\* energy_ref(s) is offset + sum_i h_i s_i + sum_{i<j} J_ij s_i s_j, and
\* energy(s) called on a state whose cache is invalid returns that value.
C1_EnergyIsHamiltonian ==
    (/\ pc = "state"
     /\ ret # None
     /\ SymmetricAdjacency(instance) /\ NoSelfLoops(instance)
     /\ \/ ret.op = "energy_ref"
        \/ ret.op = "energy" /\ ~ret.cached)
    => /\ ret.val = Hamiltonian(instance, state.arr)
       /\ ret.op = "energy" => state.energy = ret.val /\ state.energy_init

\* An uncached energy call on an instance with a bias and a coupling.
C1_Witness ==
    /\ pc = "state"
    /\ ret # None
    /\ ret.op = "energy" /\ ~ret.cached
    /\ SymmetricAdjacency(instance) /\ NoSelfLoops(instance)
    /\ \E i \in DOMAIN instance.bias :
          instance.bias[i] # 0 /\ instance.coupling_vecs[i] # <<>>
    /\ ret.val # instance.offset

\* C2: on an instance with a symmetric adjacency list without self-loops,
\* delta_energy(s, i) is energy_ref(s') - energy_ref(s) for s' = s with spin i
\* negated, which is -2 s_i (h_i + sum_j J_ij s_j).
C2_DeltaIsDifference ==
    (/\ pc = "state"
     /\ ret # None
     /\ ret.op = "delta_energy"
     /\ SymmetricAdjacency(instance) /\ NoSelfLoops(instance))
    => LET i == ret.mv
           n == size(instance)
       IN  /\ ret.val = energy_ref(instance, uset_neg(state.arr, i))
                        - energy_ref(instance, state.arr)
           /\ ret.val = (-2) * state.arr[i]
                        * (instance.bias[i]
                           + SumSeq([k \in 1..n |-> J(instance, i, k-1) * state.arr[k-1]]))

\* A non-zero delta of a spin that has a bias and a neighbour.
C2_Witness ==
    /\ pc = "state"
    /\ ret # None
    /\ ret.op = "delta_energy"
    /\ SymmetricAdjacency(instance) /\ NoSelfLoops(instance)
    /\ instance.bias[ret.mv] # 0
    /\ instance.coupling_vecs[ret.mv] # <<>>
    /\ ret.val # 0

\* The file holds only diagonal entries (i, i, K_i).
DiagonalFile == \A c \in DOMAIN input.file : c[1] = c[2]

FileK(i) == IF <<i, i>> \in DOMAIN input.file THEN Unit * input.file[<<i, i>>] ELSE 0

\* C8: an instance loaded in QUBO mode from a file of diagonal entries
\* (i, i, K_i) has offset = sum K_i/2, h_i = K_i/2 and no couplings, and
\* the energy of every state s is sum_i K_i (1 + s_i)/2.
C8_QuboDiagonal ==
    (Built /\ input.how = "qubo" /\ DiagonalFile)
    => LET n == input.n
       IN  /\ instance.offset = SumSeq([k \in 1..n |-> FileK(k-1) \div 2])
           /\ \A i \in 0..(n-1) : instance.bias[i] = FileK(i) \div 2
           /\ DOMAIN instance.coupling.data = {}
           /\ (pc = "state" /\ ret # None /\ ret.op = "energy_ref")
              => ret.val = SumSeq([k \in 1..n |-> (FileK(k-1) * (1 + state.arr[k-1])) \div 2])

\* C9: in every instance that new_zero_bias or from_instance_file builds,
\* coupling_vecs holds no entry (i, i), and row i of coupling_vecs holds
\* exactly the stored entries of row i of the coupling matrix.
C9_AdjacencyIsMatrix ==
    Built =>
        /\ NoSelfLoops(instance)
        /\ \A i \in DOMAIN instance.bias :
              /\ Range(instance.coupling_vecs[i]) = Range(CsRow(instance.coupling, i))
              /\ Len(instance.coupling_vecs[i]) = Len(CsRow(instance.coupling, i))

----------------------------------------------------------------------------
(* The connectivity graph and the Houdayer cluster move.                   *)

\* Csr::from_sorted_edges over the stored entries (i, j) of the coupling
\* matrix: the graph has max index + 1 nodes (none without an edge), and
\* neighbors(a) are the columns of row a in ascending order.
to_csr_graph(coupling) ==
    LET edges == DOMAIN coupling.data
        ends  == {e[1] : e \in edges} \cup {e[2] : e \in edges}
        nc    == IF edges = {} THEN 0
                 ELSE (CHOOSE m \in ends : \A x \in ends : x <= m) + 1
    IN  [node_count |-> nc,
         neighbors  |-> [a \in 0..(nc-1) |-> SortedSeq({e[2] : e \in {d \in edges : d[1] = a}})]]

\* `&s1 * &s2`: the overlap q_i = s1_i s2_i.
Overlap(arr1, arr2) == [i \in DOMAIN arr1 |-> arr1[i] * arr2[i]]

\* The indices with q_i < 0, in ascending order (lines 390-396).
NegativeIdxs(overlap) == SortedSeq({i \in DOMAIN overlap : overlap[i] < 0})

\* The walk without the filter: every neighbour of the graph.
UnfilteredNeighbors(graph, overlap, node) == graph.neighbors[node]

\* NodeFiltered::neighbors(node): the neighbours that pass the filter
\* q < 0, and none when the node itself does not pass it.
FilteredNeighbors(graph, overlap, node) ==
    IF overlap[node] < 0
    THEN SelectSeq(graph.neighbors[node], LAMBDA m : overlap[m] < 0)
    ELSE <<>>

\* The visit that marks the successors and does not queue them.
RECURSIVE BfsVisitNoPush(_, _, _)
BfsVisitNoPush(succs, stack, discovered) ==
    IF succs = <<>> THEN [stack |-> stack, discovered |-> discovered]
    ELSE BfsVisitNoPush(Tail(succs), stack, discovered \cup {Head(succs)})

\* The loop of Bfs::next over the successors of a node: each one not yet
\* discovered is marked and pushed on the back of the queue.
RECURSIVE BfsVisit(_, _, _)
BfsVisit(succs, stack, discovered) ==
    IF succs = <<>> THEN [stack |-> stack, discovered |-> discovered]
    ELSE IF Head(succs) \in discovered
         THEN BfsVisit(Tail(succs), stack, discovered)
         ELSE BfsVisit(Tail(succs), Append(stack, Head(succs)),
                       discovered \cup {Head(succs)})

\* `while let Some(x) = bfs.next(&filtered_graph)`: bfs.discovered at the end.
RECURSIVE BfsDiscovered(_, _, _, _)
BfsDiscovered(graph, overlap, stack, discovered) ==
    IF stack = <<>> THEN discovered
    ELSE LET r == BfsVisit(FilteredNeighbors(graph, overlap, Head(stack)),
                           Tail(stack), discovered)
         IN  BfsDiscovered(graph, overlap, r.stack, r.discovered)

\* The swap that copies replica 2 into replica 1 and leaves replica 2.
SwapOneWay(arr1, arr2, nodes) ==
    [arr1 |-> [i \in DOMAIN arr1 |-> IF i \in nodes THEN arr2[i] ELSE arr1[i]],
     arr2 |-> arr2]

\* `std::mem::swap` of the two replicas' spins at every index of the cluster.
SwapCluster(arr1, arr2, nodes) ==
    [arr1 |-> [i \in DOMAIN arr1 |-> IF i \in nodes THEN arr2[i] ELSE arr1[i]],
     arr2 |-> [i \in DOMAIN arr2 |-> IF i \in nodes THEN arr1[i] ELSE arr2[i]]]

\* The variant that invalidates the energy caches before it looks for a seed.
houdayer_invalidates_first(r1, r2, graph, k) ==
    LET overlap == Overlap(r1.arr, r2.arr)
        idxs    == NegativeIdxs(overlap)
    IN  IF idxs = <<>>
        THEN [panic |-> FALSE, some |-> FALSE, nodes |-> {},
              replica1 |-> [r1 EXCEPT !.energy_init = FALSE],
              replica2 |-> [r2 EXCEPT !.energy_init = FALSE]]
        ELSE IF ~(idxs[k] < graph.node_count)
        THEN [panic |-> TRUE, some |-> FALSE, nodes |-> {}, replica1 |-> r1, replica2 |-> r2]
        ELSE LET nodes == BfsDiscovered(graph, overlap, <<idxs[k]>>, {idxs[k]})
                 sw    == SwapCluster(r1.arr, r2.arr, nodes)
             IN  [panic |-> FALSE, some |-> TRUE, nodes |-> nodes,
                  replica1 |-> [r1 EXCEPT !.arr = sw.arr1, !.energy_init = FALSE],
                  replica2 |-> [r2 EXCEPT !.arr = sw.arr2, !.energy_init = FALSE]]

\* houdayer_cluster_move; k is the random choice `idxs.choose(rng)`, an index
\* into idxs.  The result is None (some = FALSE) or Some(nodes).  Bfs::new marks the seed in a bit set of graph.node_count bits,
\* which panics for a seed that is no node of the graph.
houdayer_cluster_move(r1, r2, graph, k) ==
    LET overlap == Overlap(r1.arr, r2.arr)
        idxs    == NegativeIdxs(overlap)
    IN  IF idxs = <<>>
        THEN [panic |-> FALSE, some |-> FALSE, nodes |-> {}, replica1 |-> r1, replica2 |-> r2]
        ELSE IF ~(idxs[k] < graph.node_count)
        THEN [panic |-> TRUE, some |-> FALSE, nodes |-> {}, replica1 |-> r1, replica2 |-> r2]
        ELSE LET nodes == BfsDiscovered(graph, overlap, <<idxs[k]>>, {idxs[k]})
                 sw    == SwapCluster(r1.arr, r2.arr, nodes)
             IN  [panic |-> FALSE, some |-> TRUE, nodes |-> nodes,
                  replica1 |-> [r1 EXCEPT !.arr = sw.arr1, !.energy_init = FALSE],
                  replica2 |-> [r2 EXCEPT !.arr = sw.arr2, !.energy_init = FALSE]]

\* rand_ising_state as a whole: a state of random spins, its energy cached.
rand_ising_state(inst, arr) ==
    energy(inst, [arr |-> arr, energy |-> 0, energy_init |-> FALSE]).st

----------------------------------------------------------------------------
(* Scenario "icm": an instance is loaded, the runner builds its graph, two *)
(* random replicas are made and Houdayer moves are applied to them.        *)

\* PtIcmRunner::new, the construction of the graph (lines 685-688).
NewRunnerGraph ==
    /\ pc = "instance"
    /\ g' = to_csr_graph(instance.coupling)
    /\ pc' = "runner"
    /\ UNCHANGED <<input, instance, state, ret, replica1, replica2, before, runVars>>

\* generate_init_state for one pair of replicas.
GenerateInitState ==
    /\ pc = "runner"
    /\ \E arr1 \in [0..(size(instance)-1) -> {-1, 1}],
          arr2 \in [0..(size(instance)-1) -> {-1, 1}] :
          /\ replica1' = rand_ising_state(instance, arr1)
          /\ replica2' = rand_ising_state(instance, arr2)
    /\ pc' = "replicas"
    /\ UNCHANGED <<input, instance, state, ret, g, before, runVars>>

\* The rng draws houdayer_cluster_move can make: one per index with q < 0.
SeedChoices(r1, r2) ==
    LET m == Len(NegativeIdxs(Overlap(r1.arr, r2.arr)))
    IN  IF m = 0 THEN {1} ELSE 1..m

\* houdayer_cluster_move(replica1, replica2, &self.g, rng)
HoudayerClusterMove ==
    /\ pc = "replicas"
    /\ \E k \in SeedChoices(replica1, replica2) :
          LET r == houdayer_cluster_move(replica1, replica2, g, k)
          IN  /\ replica1' = r.replica1
              /\ replica2' = r.replica2
              /\ ret' = [op |-> "houdayer", some |-> r.some, nodes |-> r.nodes]
              /\ pc' = IF r.panic THEN "panic" ELSE "moved"
    /\ before' = [replica1 |-> replica1, replica2 |-> replica2]
    /\ UNCHANGED <<input, instance, state, g, runVars>>

\* The instance files of the scenario: Ising and QUBO mode.
IcmInit == Init /\ input.how \in {"ising", "qubo"}

IcmNext ==
    \/ FromInstanceFile
    \/ NewRunnerGraph
    \/ GenerateInitState
    \/ HoudayerClusterMove

SpecIcm == IcmInit /\ [][IcmNext]_vars

\* The move returned a cluster.
MovedCluster == pc = "moved" /\ ret.some

PairEnergy(inst, r1, r2) == energy_ref(inst, r1.arr) + energy_ref(inst, r2.arr)

\* C4: after a Houdayer move that returns a cluster C, the overlap
\* q_i = s1_i s2_i is unchanged at every index; every index of C has q = -1
\* and its spin has been negated in both replicas.
C4_OverlapUnchanged ==
    MovedCluster =>
        /\ Overlap(replica1.arr, replica2.arr)
             = Overlap(before.replica1.arr, before.replica2.arr)
        /\ \A i \in ret.nodes :
              /\ replica1.arr[i] * replica2.arr[i] = -1
              /\ replica1.arr[i] = (-1) * before.replica1.arr[i]
              /\ replica2.arr[i] = (-1) * before.replica2.arr[i]

\* A cluster of two spins was swapped while a third spin with q = +1, a
\* neighbour of the cluster, stayed.
C4_Witness ==
    /\ MovedCluster
    /\ Cardinality(ret.nodes) = 2
    /\ \E i \in ret.nodes : \E k \in 1..Len(g.neighbors[i]) :
          /\ g.neighbors[i][k] \notin ret.nodes
          /\ replica1.arr[g.neighbors[i][k]] = replica2.arr[g.neighbors[i][k]]

\* C5: a Houdayer move leaves energy_ref(s1) + energy_ref(s2) unchanged, on
\* every instance with symmetric couplings, with or without biases.
C5_PairEnergyUnchanged ==
    (pc = "moved" /\ SymmetricAdjacency(instance))
    => PairEnergy(instance, replica1, replica2)
         = PairEnergy(instance, before.replica1, before.replica2)

\* A cluster was swapped on an instance with biases and couplings, and the
\* energy of each replica changed.
C5_Witness ==
    /\ MovedCluster
    /\ SymmetricAdjacency(instance)
    /\ \E i \in ret.nodes : instance.bias[i] # 0
    /\ \E i \in ret.nodes : instance.coupling_vecs[i] # <<>>
    /\ energy_ref(instance, replica1.arr) # energy_ref(instance, before.replica1.arr)

\* C6: when no index has q = -1 the move returns none and leaves both
\* states as they were: spins, cached energies and validity flags.
C6_NoOpWithoutDisagreement ==
    (/\ pc \in {"moved", "panic"}
     /\ ret # None
     /\ ret.op = "houdayer"
     /\ \A i \in DOMAIN before.replica1.arr :
           before.replica1.arr[i] * before.replica2.arr[i] # -1)
    => /\ pc = "moved"
       /\ ~ret.some
       /\ replica1 = before.replica1
       /\ replica2 = before.replica2

\* The move was called on two equal replicas with valid, non-zero caches.
C6_Witness ==
    /\ pc = "moved"
    /\ ~ret.some
    /\ before.replica1.arr = before.replica2.arr
    /\ before.replica1.energy_init /\ before.replica2.energy_init
    /\ before.replica1.energy # 0
    /\ size(instance) = MaxN

----------------------------------------------------------------------------
(* Bit packing.  A byte or word is modelled as the set of the positions of *)
(* its 1 bits (its value is the sum of 2^k over them): `1 << k` is {k} and *)
(* `|=` is the union.                                                      *)

\* The loop of as_bytes / as_u64_vec from index i on, over words of w bits:
\* bytes_vec[i / w] |= if si > 0 { 0 } else { 1 << (i % w) }.
RECURSIVE PackLoop(_, _, _, _)
PackLoop(arr, i, w, bytes_vec) ==
    IF i >= Cardinality(DOMAIN arr) THEN bytes_vec
    ELSE LET bi == i \div w
             k  == i % w
         IN  PackLoop(arr, i + 1, w,
                      [bytes_vec EXCEPT ![bi] = @ \cup (IF arr[i] > 0 THEN {} ELSE {k})])

as_bytes(arr) ==
    LET n         == Cardinality(DOMAIN arr)
        num_bytes == (n \div ByteBits) + (IF n % ByteBits = 0 THEN 0 ELSE 1)
    IN  PackLoop(arr, 0, ByteBits, [b \in 0..(num_bytes-1) |-> {}])

\* The loop of as_u64_vec with the bit index of as_bytes, k = i % 8.
RECURSIVE PackLoopByteShift(_, _, _)
PackLoopByteShift(arr, i, bytes_vec) ==
    IF i >= Cardinality(DOMAIN arr) THEN bytes_vec
    ELSE LET bi == i \div WordBits
             k  == i % ByteBits
         IN  PackLoopByteShift(arr, i + 1,
                      [bytes_vec EXCEPT ![bi] = @ \cup (IF arr[i] > 0 THEN {} ELSE {k})])

as_u64_vec_byte_shift(arr) ==
    LET n         == Cardinality(DOMAIN arr)
        num_bytes == (n \div WordBits) + (IF n % WordBits = 0 THEN 0 ELSE 1)
    IN  PackLoopByteShift(arr, 0, [b \in 0..(num_bytes-1) |-> {}])

as_u64_vec(arr) ==
    LET n         == Cardinality(DOMAIN arr)
        num_bytes == (n \div WordBits) + (IF n % WordBits = 0 THEN 0 ELSE 1)
    IN  PackLoop(arr, 0, WordBits, [b \in 0..(num_bytes-1) |-> {}])

----------------------------------------------------------------------------
(* Scenario "pack": a spin vector is packed into bytes and into words.     *)

\* The sets of indices holding -1 of the longer vectors: none, one index,
\* one index and the last, all but one index, all.
NegativeSets(n) ==
    LET I == 0..(n-1)
    IN  {{}} \cup {{a, n - 1} : a \in I} \cup {I \ {a} : a \in I} \cup {I}

\* Every vector of length <= MaxFullLen, and the vectors of NegativeSets of
\* every length <= MaxPackLen.
PackVectors ==
    UNION {[0..(n-1) -> {-1, 1}] : n \in 0..MaxFullLen}
    \cup
    UNION {{[i \in 0..(n-1) |-> IF i \in S THEN -1 ELSE 1] : S \in NegativeSets(n)} :
           n \in 0..MaxPackLen}

PackInit ==
    /\ pc = "pack"
    /\ state \in {[arr |-> a, energy |-> 0, energy_init |-> FALSE] : a \in PackVectors}
    /\ input = None /\ instance = None /\ ret = None
    /\ g = None /\ replica1 = None /\ replica2 = None /\ before = None
    /\ RunIdle

\* state.as_bytes()
AsBytes ==
    /\ pc = "pack"
    /\ ret' = [op |-> "as_bytes", val |-> as_bytes(state.arr)]
    /\ UNCHANGED <<pc, input, instance, state, icmVars, runVars>>

\* state.as_u64_vec()
AsU64Vec ==
    /\ pc = "pack"
    /\ ret' = [op |-> "as_u64_vec", val |-> as_u64_vec(state.arr)]
    /\ UNCHANGED <<pc, input, instance, state, icmVars, runVars>>

PackNext == AsBytes \/ AsU64Vec

SpecPack == PackInit /\ [][PackNext]_vars

\* The +-1 vector of length n that the bits of the words stand for.
Decode(words, w, n) ==
    [i \in 0..(n-1) |-> IF (i % w) \in words[i \div w] THEN -1 ELSE 1]

\* C7: as_bytes returns ceil(N/8) bytes and as_u64_vec ceil(N/64) words;
\* bit (i mod W) of word (i div W) is 0 for s_i = +1 and 1 for s_i = -1, the
\* bits at positions >= N are zero, and decoding gives the vector back.
C7_PackRoundTrip ==
    (pc = "pack" /\ ret # None)
    => LET w == IF ret.op = "as_bytes" THEN 8 ELSE 64
           n == Cardinality(DOMAIN state.arr)
       IN  /\ DOMAIN ret.val = 0..(((n + w - 1) \div w) - 1)
           /\ \A i \in 0..(n-1) :
                 /\ state.arr[i] = 1  => (i % w) \notin ret.val[i \div w]
                 /\ state.arr[i] = -1 => (i % w) \in ret.val[i \div w]
           /\ \A b \in DOMAIN ret.val : \A k \in ret.val[b] :
                 k \in 0..(w-1) /\ b * w + k < n
           /\ Decode(ret.val, w, n) = state.arr

\* A vector longer than one 64-bit word, with a -1 in its second word and a
\* +1 in its first, was packed into words.
C7_Witness ==
    /\ pc = "pack" /\ ret # None
    /\ ret.op = "as_u64_vec"
    /\ Cardinality(DOMAIN state.arr) > 64
    /\ ret.val[1] # {}
    /\ \E i \in 8..63 : state.arr[i] = -1
    /\ \E i \in 0..63 : state.arr[i] = 1


-----------------------------------------------------------------------------
(* The PT-ICM run: PtIcmRunner::new, generate_init_state and pt_loop.      *)
(* The inverse temperatures are integers; warmup_fraction is the exact     *)
(* fraction <<p, q>>, so the f64 product of line 690 is exact.             *)
(* pt_state[c].states[k] is the replica of chain c at beta index k.        *)

\* The test of lines 664-667 on the beta array.
NonDecreasing(beta_vec) ==
    \A k \in 1..(Len(beta_vec) - 1) : beta_vec[k+1] - beta_vec[k] >= 0

find_lo_beta_first(beta_vec, lo_beta) ==
    LET hits == {k \in 0..(Len(beta_vec) - 1) : beta_vec[k+1] >= lo_beta}
    IN  IF hits = {} THEN 0
        ELSE CHOOSE k \in hits : \A h \in hits : k <= h

\* Lines 669-678: the first index with beta >= lo_beta, else the last.
find_lo_beta_idx(beta_vec, lo_beta) ==
    LET hits == {k \in 0..(Len(beta_vec) - 1) : beta_vec[k+1] >= lo_beta}
    IN  IF hits = {} THEN Len(beta_vec) - 1
        ELSE CHOOSE k \in hits : \A h \in hits : k <= h

\* Line 690: (warmup_fraction * num_sweeps) as u32.
new_meas_init(p) == (p.warmup_fraction[1] * p.num_sweeps) \div p.warmup_fraction[2]

\* PtIcmRunner::new(instance, params)
PtIcmRunnerNew ==
    /\ pc = "instance"
    /\ IF ~NonDecreasing(params.beta)
       THEN pc' = "panic" /\ UNCHANGED <<runner, g>>
       ELSE /\ runner' = [beta_vec    |-> params.beta,
                          meas_init   |-> new_meas_init(params),
                          lo_beta_idx |-> find_lo_beta_idx(params.beta, params.lo_beta)]
            /\ g' = to_csr_graph(instance.coupling)
            /\ pc' = "runner"
    /\ UNCHANGED <<opt, input, instance, state, ret, replica1, replica2, before,
                   params, pt_state, sweep, chain, minimum_e, pt_results,
                   pt_samples, calls, seen_min,
                   parVars, passes>>

\* The states rand_ising_state can return.
RandStates(inst) ==
    {rand_ising_state(inst, arr) : arr \in [0..(size(inst)-1) -> {-1, 1}]}

\* generate_init_state: num_replica_chains chains of num_betas random states.
generate_init_state(inst, num_chains, num_betas) ==
    [0..(num_chains-1) ->
        {[states |-> f] : f \in [0..(num_betas-1) -> RandStates(inst)]}]

\* pt_icm_minimize takes run(None) unless params.threads > 1 (lines 927-931).
RunGenerateInitState ==
    /\ pc = "runner"
    /\ ~(params.threads > 1)
    /\ pt_state' \in generate_init_state(instance, params.num_replica_chains,
                                         Len(runner.beta_vec))
    /\ pc' = "pt_state"
    /\ UNCHANGED <<opt, input, instance, state, ret, icmVars, params, runner, sweep,
                   chain, minimum_e, pt_results, pt_samples, calls, seen_min,
                   parVars, passes>>

\* PtIcmMinResults::new.  acceptance_counts and timing are filled in after
\* the loop and are left out.
PtIcmMinResultsNew ==
    [gs_time_steps |-> <<>>, gs_energies |-> <<>>, gs_states |-> <<>>,
     num_measurements |-> 0]

\* PtIcmThermalSamples::new.  Each vector of e, q and samples is kept as
\* its length: the values pushed are dropped.
PtIcmThermalSamplesNew(num_betas, compression_level) ==
    LET buckets == IF compression_level = 0 THEN num_betas
                   ELSE IF compression_level = 1 THEN num_betas \div 2
                   ELSE 1
    IN  [compression_level |-> compression_level,
         samples |-> [b \in 0..(buckets-1) |-> 0],
         e       |-> [k \in 0..(num_betas-1) |-> 0],
         q       |-> [k \in 0..(num_betas-1) |-> 0]]

\* The head of pt_loop (lines 791-816).
PtLoopBegin ==
    /\ pc = "pt_state"
    /\ pt_results' = PtIcmMinResultsNew
    /\ pt_samples' = PtIcmThermalSamplesNew(
                         Len(runner.beta_vec),
                         IF params.sample_limiting.some
                         THEN params.sample_limiting.val ELSE 0)
    /\ minimum_e' = OptNone
    /\ sweep' = 0
    /\ pc' = IF params.num_sweeps = 0 THEN "done" ELSE "icm"
    /\ UNCHANGED <<opt, input, instance, state, ret, icmVars, params, runner,
                   pt_state, chain, calls, seen_min, parVars>>
    /\ passes' = [icm   |-> 0,
                  sweeps |-> [c \in 0..(params.num_replica_chains - 1) |-> 0],
                  meas   |-> 0]

\* apply_icm from pair p and beta index b on: the chains are taken two by
\* two (chunks_exact_mut(2) leaves an odd last chain out), and each pair of
\* replicas at a beta index >= lo_beta_idx gets one Houdayer move.  The
\* result is the set of outcomes over the draws of the rng.
RECURSIVE IcmOutcomes(_, _, _, _, _)
IcmOutcomes(pts, graph, lo_idx, p, b) ==
    LET num_chains == Cardinality(DOMAIN pts)
        num_betas  == Cardinality(DOMAIN pts[0].states)
    IN  IF 2 * p + 1 >= num_chains
        THEN {[panic |-> FALSE, pt_state |-> pts]}
        ELSE IF b >= num_betas
        THEN IcmOutcomes(pts, graph, lo_idx, p + 1, lo_idx)
        ELSE LET r1 == pts[2 * p].states[b]
                 r2 == pts[2 * p + 1].states[b]
             IN  UNION {
                   LET r == houdayer_cluster_move(r1, r2, graph, k)
                   IN  IF r.panic
                       THEN {[panic |-> TRUE, pt_state |-> pts]}
                       ELSE IcmOutcomes(
                              [pts EXCEPT ![2 * p].states[b] = r.replica1,
                                          ![2 * p + 1].states[b] = r.replica2],
                              graph, lo_idx, p, b + 1)
                   : k \in SeedChoices(r1, r2)}

\* The pass that takes every beta index.
apply_icm_every_beta(pts, graph, lo_idx, icm) ==
    IF ~icm THEN {[panic |-> FALSE, pt_state |-> pts]}
    ELSE IcmOutcomes(pts, graph, 0, 0, 0)

apply_icm(pts, graph, lo_idx, icm) ==
    IF ~icm THEN {[panic |-> FALSE, pt_state |-> pts]}
    ELSE IcmOutcomes(pts, graph, lo_idx, 0, lo_idx)

\* self.apply_icm(pt_state, rng)
ApplyIcm ==
    /\ pc = "icm"
    /\ \E o \in apply_icm(pt_state, g, runner.lo_beta_idx, params.icm) :
          /\ pt_state' = o.pt_state
          /\ pc' = IF o.panic THEN "panic" ELSE "sweep"
    /\ chain' = 0
    /\ UNCHANGED <<opt, input, instance, state, ret, icmVars, params, runner, sweep,
                   minimum_e, pt_results, pt_samples, calls, seen_min, parVars>>
    /\ passes' = [passes EXCEPT !.icm = @ + 1]

\* MetropolisSampler::advance_impl(mv, state, rng): the flip is accepted if
\* dE <= 0, else with probability exp(-beta dE); an accepted flip negates
\* the spin and returns Some(dE).  (beta > 0, so both outcomes of an uphill
\* flip have positive probability.)
AcceptChoices(de) == IF de <= 0 THEN {TRUE} ELSE {TRUE, FALSE}

advance_impl(inst, arr, mv, accept) ==
    IF accept
    THEN [arr |-> uset_neg(arr, mv), de |-> OptSome(delta_energy(inst, arr, mv))]
    ELSE [arr |-> arr, de |-> OptNone]

\* The loop of IsingSampler::sweep from site i on: the set of (arr, de).
RECURSIVE SweepLoop(_, _, _, _)
SweepLoop(inst, arr, i, de) ==
    IF i >= Cardinality(DOMAIN arr) THEN {[arr |-> arr, de |-> de]}
    ELSE UNION {
           LET dei == advance_impl(inst, arr, i, a)
           IN  SweepLoop(inst, dei.arr, i + 1,
                         de + (IF dei.de.some THEN dei.de.val ELSE 0))
           : a \in AcceptChoices(delta_energy(inst, arr, i))}

\* IsingSampler::sweep(state, rng): state.energy += de, the flag untouched.
IsingSamplerSweep(inst, st) ==
    {[st EXCEPT !.arr = o.arr, !.energy = @ + o.de] :
        o \in SweepLoop(inst, st.arr, 0, 0)}

\* The Metropolis sweeps of one chain, beta index k on.
RECURSIVE ChainSweeps(_, _, _)
ChainSweeps(inst, states, k) ==
    IF k >= Cardinality(DOMAIN states) THEN {states}
    ELSE UNION {ChainSweeps(inst, [states EXCEPT ![k] = st], k + 1) :
                    st \in IsingSamplerSweep(inst, states[k])}

\* The swap pass of one chain from the pair (k, k+1) on: the energies are
\* read with Macrostate::energy, the swap is accepted with probability
\* min(1, exp((beta_k - beta_k+1)(E_k - E_k+1))) and exchanges the states.
RECURSIVE SwapPass(_, _, _, _)
SwapPass(inst, beta_vec, states, k) ==
    IF k + 1 >= Cardinality(DOMAIN states) THEN {states}
    ELSE LET e0 == energy(inst, states[k])
             e1 == energy(inst, states[k+1])
             x  == (beta_vec[k+1] - beta_vec[k+2]) * (e0.val - e1.val)
             kept    == [states EXCEPT ![k] = e0.st, ![k+1] = e1.st]
             swapped == [states EXCEPT ![k] = e1.st, ![k+1] = e0.st]
         IN  UNION {SwapPass(inst, beta_vec, IF a THEN swapped ELSE kept, k + 1) :
                        a \in IF x >= 0 THEN {TRUE} ELSE {TRUE, FALSE}}

\* The PT sweep of one chain: a Metropolis sweep at every beta, then the
\* swap pass.
pt_sweep(inst, beta_vec, pts) ==
    {[pts EXCEPT !.states = s2] :
        s2 \in UNION {SwapPass(inst, beta_vec, s1, 0) :
                        s1 \in ChainSweeps(inst, pts.states, 0)}}

\* pt_chains_sampler.sweep(pt_state, rng): the chains one after another.
SweepChain ==
    /\ pc = "sweep"
    /\ \E o \in pt_sweep(instance, runner.beta_vec, pt_state[chain]) :
          pt_state' = [pt_state EXCEPT ![chain] = o]
    /\ IF chain + 1 >= params.num_replica_chains
       THEN chain' = 0 /\ pc' = "measure"
       ELSE chain' = chain + 1 /\ pc' = "sweep"
    /\ UNCHANGED <<opt, input, instance, state, ret, icmVars, params, runner, sweep,
                   minimum_e, pt_results, pt_samples, calls, seen_min, parVars>>
    /\ passes' = [passes EXCEPT !.sweeps[chain] = @ + 1]

\* instance.energy(st) on every replica: what the loops of measure and of
\* the ground-state search leave in the caches.
EnergyAll(inst, pts) ==
    [c \in DOMAIN pts |->
        [pts[c] EXCEPT !.states =
            [k \in DOMAIN pts[c].states |-> energy(inst, pts[c].states[k]).st]]]

\* PtIcmThermalSamples::measure: an energy per chain and an overlap per pair
\* of chains are pushed at every beta.  (No susceptibility coefficients.)
measure(samples, pts) ==
    LET num_chains == Cardinality(DOMAIN pts)
    IN  [samples EXCEPT
            !.e = [k \in DOMAIN @ |-> @[k] + num_chains],
            !.q = [k \in DOMAIN @ |-> @[k] + (num_chains \div 2)]]

\* PtIcmThermalSamples::sample_states: a packed state per chain is pushed on
\* every bucket the compression level keeps.
sample_states(samples, pts) ==
    LET num_chains == Cardinality(DOMAIN pts)
        num_betas  == Cardinality(DOMAIN pts[0].states)
        filled     == IF samples.compression_level = 0 THEN 0..(num_betas - 1)
                      ELSE IF samples.compression_level = 1
                      THEN 0..((num_betas \div 2) - 1)
                      ELSE {0}
    IN  [samples EXCEPT
            !.samples = [b \in DOMAIN @ |->
                            IF b \in filled THEN @[b] + num_chains ELSE @[b]]]

\* The schedule without the clause for the last sweep.
SampleDueNoLast(i, mi, num_sweeps, steps) ==
    steps.some /\ (i - mi) % steps.val = 0

\* Lines 875-876 and 880-881, for i >= meas_init:
\* Some(steps) and (stp % steps == 0 || i == num_sweeps - 1).
SampleDue(i, mi, num_sweeps, steps) ==
    steps.some /\ ((i - mi) % steps.val = 0 \/ i = num_sweeps - 1)

\* min_by over a vector: the index of the first least element.
FirstMin(f) ==
    CHOOSE k \in DOMAIN f :
        /\ \A j \in DOMAIN f : f[k] <= f[j]
        /\ \A j \in DOMAIN f : j < k => f[j] > f[k]

\* The update that also appends when the minimum is only equalled.
gs_update_on_tie(i, min_e, min_state, min_opt, res) ==
    IF ~min_opt.some \/ min_e <= min_opt.val
    THEN [minimum_e  |-> OptSome(min_e),
          pt_results |-> [res EXCEPT
                            !.gs_states     = Append(@, as_u64_vec(min_state.arr)),
                            !.gs_energies   = Append(@, min_e),
                            !.gs_time_steps = Append(@, i)]]
    ELSE [minimum_e |-> min_opt, pt_results |-> res]

\* Lines 902-907: minimum_e.map_or(true, |x| min_e < x) appends to the log.
gs_update(i, min_e, min_state, min_opt, res) ==
    IF ~min_opt.some \/ min_e < min_opt.val
    THEN [minimum_e  |-> OptSome(min_e),
          pt_results |-> [res EXCEPT
                            !.gs_states     = Append(@, as_u64_vec(min_state.arr)),
                            !.gs_energies   = Append(@, min_e),
                            !.gs_time_steps = Append(@, i)]]
    ELSE [minimum_e |-> min_opt, pt_results |-> res]

\* apply_measurements(i, pt_state, minimum_e, pt_results, pt_samples)
apply_measurements(i, pts, min_opt, res, samples, r, p, inst) ==
    IF i >= r.meas_init
    THEN LET do_measure == SampleDue(i, r.meas_init, p.num_sweeps, p.sample)
             do_states  == SampleDue(i, r.meas_init, p.num_sweeps, p.sample_states)
             pts1       == IF do_measure THEN EnergyAll(inst, pts) ELSE pts
             samples1   == IF do_measure THEN measure(samples, pts) ELSE samples
             samples2   == IF do_states THEN sample_states(samples1, pts1) ELSE samples1
             min_energies ==
                 [c \in DOMAIN pts1 |->
                     LET energies == [k \in DOMAIN pts1[c].states |->
                                         energy(inst, pts1[c].states[k]).val]
                         i1       == FirstMin(energies)
                     IN  <<i1, energies[i1]>>]
             pts2       == EnergyAll(inst, pts1)
             min_e_ch   == FirstMin([c \in DOMAIN pts1 |-> min_energies[c][2]])
             min_idx    == min_energies[min_e_ch][1]
             min_e      == min_energies[min_e_ch][2]
             min_state  == pts2[min_e_ch].states[min_idx]
             upd        == gs_update(i, min_e, min_state, min_opt, res)
         IN  [pt_state   |-> pts2,
              minimum_e  |-> upd.minimum_e,
              pt_results |-> upd.pt_results,
              pt_samples |-> samples2,
              measure       |-> IF do_measure THEN 1 ELSE 0,
              sample_states |-> IF do_states THEN 1 ELSE 0]
    ELSE [pt_state |-> pts, minimum_e |-> min_opt, pt_results |-> res,
          pt_samples |-> samples, measure |-> 0, sample_states |-> 0]

\* The loop `for i in 0..num_sweeps` ends after one iteration too many.
LoopEndsLate(i, num_sweeps) == i + 1 > num_sweeps

\* `for i in 0..num_sweeps`: iteration i is the last one.
LoopEnds(i, num_sweeps) == i + 1 >= num_sweeps

\* The least energy over all (chain, beta) positions, each read with
\* instance.energy: the cached value, recomputed where the cache is invalid.
SweepMinimum(inst, pts) ==
    LET es == {energy(inst, pts[c].states[k]).val :
                  c \in DOMAIN pts, k \in DOMAIN pts[0].states}
    IN  CHOOSE e \in es : \A x \in es : e <= x

\* self.apply_measurements(i, ...), and the step of the loop `for i`.
\* calls and seen_min record the pass for the properties below.
ApplyMeasurements ==
    /\ pc = "measure"
    /\ LET o == apply_measurements(sweep, pt_state, minimum_e, pt_results,
                                   pt_samples, runner, params, instance)
       IN  /\ pt_state' = o.pt_state
           /\ minimum_e' = o.minimum_e
           /\ pt_results' = o.pt_results
           /\ pt_samples' = o.pt_samples
           /\ calls' = [sweep |-> sweep, measure |-> o.measure,
                        sample_states |-> o.sample_states]
    /\ seen_min' =
          IF sweep >= runner.meas_init
          THEN LET m == SweepMinimum(instance, pt_state)
               IN  IF seen_min.some /\ seen_min.val <= m THEN seen_min ELSE OptSome(m)
          ELSE seen_min
    /\ sweep' = sweep + 1
    /\ pc' = IF LoopEnds(sweep, params.num_sweeps) THEN "done" ELSE "icm"
    /\ UNCHANGED <<opt, input, instance, state, ret, icmVars, params, runner, chain, parVars>>
    /\ passes' = [passes EXCEPT !.meas = @ + 1]

-----------------------------------------------------------------------------
(* Scenario "run": a two-spin instance with a coupling and a bias is       *)
(* loaded, a runner is made for it and pt_loop runs to its end.            *)

MaxSweeps == 3
MaxGsSweeps == 3

\* The file "0 1 4", "0 0 -1": four states, four different energies.
RunInput == [n |-> 2, file |-> (<<0, 1>> :> 4 @@ <<0, 0>> :> -1), how |-> "ising"]

\* The warm-up fractions 0 and 1/2.
WarmupFractions == {<<0, 1>>, <<1, 2>>}

\* The parameters of the runs of the schedule: one beta, every stride.
ScheduleParams ==
    {[num_sweeps |-> ns, warmup_fraction |-> w, beta |-> <<1>>, lo_beta |-> 1,
      icm |-> TRUE, num_replica_chains |-> 2, threads |-> 1,
      sample |-> s, sample_states |-> ss,
      sample_limiting |-> OptSome(0)] :
        ns \in 1..MaxSweeps, w \in WarmupFractions,
        s \in {OptNone, OptSome(1), OptSome(3)},
        ss \in {OptNone, OptSome(2), OptSome(3)}}

\* The parameters of the runs of the ground-state search: two betas, with
\* and without cluster moves.
GsParams ==
    {[num_sweeps |-> ns, warmup_fraction |-> w, beta |-> <<1, 2>>, lo_beta |-> 2,
      icm |-> icm, num_replica_chains |-> 2, threads |-> 1, sample |-> OptSome(2),
      sample_states |-> OptNone, sample_limiting |-> OptSome(0)] :
        ns \in 1..MaxGsSweeps, w \in WarmupFractions, icm \in BOOLEAN}

RunStart ==
    /\ pc = "input"
    /\ input = RunInput
    /\ instance = None
    /\ state = None
    /\ ret = None
    /\ g = None /\ replica1 = None /\ replica2 = None /\ before = None
    /\ runner = None /\ pt_state = None /\ sweep = 0 /\ chain = 0
    /\ minimum_e = None /\ pt_results = None /\ pt_samples = None
    /\ calls = None /\ seen_min = OptNone
    /\ rng_vec = None /\ workers = None /\ passes = None /\ opt = None

RunInit == RunStart /\ params \in ScheduleParams

GsInit == RunStart /\ params \in GsParams

RunNext ==
    \/ FromInstanceFile
    \/ PtIcmRunnerNew
    \/ RunGenerateInitState
    \/ PtLoopBegin
    \/ ApplyIcm
    \/ SweepChain
    \/ ApplyMeasurements

SpecRun == RunInit /\ [][RunNext]_vars

SpecGs == GsInit /\ [][RunNext]_vars

\* C3: the three arrays of the ground-state log have the same length, the
\* energies strictly decrease, the time steps strictly increase, and the
\* last energy is the least, over the post-warm-up sweeps made so far, of
\* the sweep's minimum energy over all (chain, beta) positions; the log is
\* empty as long as no post-warm-up sweep has been measured.
C3_GsLog ==
    pt_results # None =>
        LET n == Len(pt_results.gs_energies)
        IN  /\ Len(pt_results.gs_time_steps) = n
            /\ Len(pt_results.gs_states) = n
            /\ \A k \in 1..(n - 1) :
                  /\ pt_results.gs_energies[k+1] < pt_results.gs_energies[k]
                  /\ pt_results.gs_time_steps[k+1] > pt_results.gs_time_steps[k]
            /\ seen_min.some <=> n > 0
            /\ n > 0 => pt_results.gs_energies[n] = seen_min.val

\* A finished run with a warm-up whose log has grown twice.
C3_Witness ==
    /\ pc = "done"
    /\ runner.meas_init > 0
    /\ Len(pt_results.gs_energies) >= 2

\* The sweeps j < i at which a stride is due, as the schedule is stated.
DueAt(j, p, steps) ==
    LET mi == (p.warmup_fraction[1] * p.num_sweeps) \div p.warmup_fraction[2]
    IN  /\ steps.some
        /\ j >= mi
        /\ ((j - mi) % steps.val = 0 \/ j = p.num_sweeps - 1)

\* C10: with meas_init = floor(warmup_fraction * num_sweeps), the pass of
\* sweep i calls measure once iff sample is set, i >= meas_init and
\* (i - meas_init) mod sample = 0 or i = num_sweeps - 1, and never more than
\* once; sample_states follows the same rule with its own stride.  The
\* vectors of the samples hold what that many calls push.
C10_Schedule ==
    /\ runner # None =>
          runner.meas_init
              = (params.warmup_fraction[1] * params.num_sweeps)
                    \div params.warmup_fraction[2]
    /\ calls # None =>
          /\ calls.measure = (IF DueAt(calls.sweep, params, params.sample) THEN 1 ELSE 0)
          /\ calls.sample_states
                = (IF DueAt(calls.sweep, params, params.sample_states) THEN 1 ELSE 0)
    /\ pt_samples # None =>
          /\ \A k \in DOMAIN pt_samples.e :
                pt_samples.e[k]
                    = params.num_replica_chains
                        * Cardinality({j \in 0..(sweep - 1) : DueAt(j, params, params.sample)})
          /\ \A b \in DOMAIN pt_samples.samples :
                pt_samples.samples[b]
                    = params.num_replica_chains
                        * Cardinality({j \in 0..(sweep - 1) :
                                          DueAt(j, params, params.sample_states)})

\* The last sweep of a run is measured although its step is not a multiple
\* of the stride, and an earlier post-warm-up sweep was not measured.
C10_Witness ==
    /\ pc = "done"
    /\ calls.sweep = params.num_sweeps - 1
    /\ params.sample.some
    /\ (calls.sweep - runner.meas_init) % params.sample.val # 0
    /\ calls.measure = 1
    /\ pt_samples.e[0] < params.num_replica_chains * (params.num_sweeps - runner.meas_init)

-----------------------------------------------------------------------------
(* Scenario "samples": PtIcmThermalSamples::new and sample_states with the *)
(* contents of the buckets kept.  The replicas have one spin, so a packed  *)
(* state is the byte vector <<{}>> or <<{0}>>, and every assignment of the *)
(* (chain, beta) positions is tried.  sweep counts the calls made.         *)

MaxChains == 2
MaxBetas == 3
MaxLevel == 3
MaxCalls == 2

\* The buckets PtIcmThermalSamples::new pushes on `samples` (lines 507-517).
samples_new(num_betas, compression_level) ==
    LET buckets == IF compression_level = 0 THEN num_betas
                   ELSE IF compression_level = 1 THEN num_betas \div 2
                   ELSE 1
    IN  [b \in 0..(buckets - 1) |-> <<>>]

\* The states of all chains at beta index k, packed, in chain order.
RECURSIVE PushChains(_, _, _, _)
PushChains(bucket, pts, k, j) ==
    IF j >= Cardinality(DOMAIN pts) THEN bucket
    ELSE PushChains(Append(bucket, as_bytes(pts[j].states[k].arr)), pts, k, j + 1)

\* sample_states with tier 1 filled in ladder order, hottest of all first.
sample_states_unreversed(samples, compression_level, pts) ==
    LET num_betas == Cardinality(DOMAIN pts[0].states)
    IN  IF compression_level = 0
        THEN [b \in DOMAIN samples |->
                 IF b < num_betas THEN PushChains(samples[b], pts, b, 0) ELSE samples[b]]
        ELSE IF compression_level = 1
        THEN [b \in DOMAIN samples |->
                 IF b < num_betas \div 2
                 THEN PushChains(samples[b], pts, b, 0) ELSE samples[b]]
        ELSE [samples EXCEPT ![0] = PushChains(@, pts, num_betas - 1, 0)]

\* PtIcmThermalSamples::sample_states with the pushed contents.
sample_states_full(samples, compression_level, pts) ==
    LET num_betas == Cardinality(DOMAIN pts[0].states)
    IN  IF compression_level = 0
        THEN [b \in DOMAIN samples |->
                 IF b < num_betas THEN PushChains(samples[b], pts, b, 0) ELSE samples[b]]
        ELSE IF compression_level = 1
        THEN [b \in DOMAIN samples |->
                 IF b < num_betas \div 2
                 THEN PushChains(samples[b], pts, num_betas - b - 1, 0) ELSE samples[b]]
        ELSE [samples EXCEPT ![0] = PushChains(@, pts, num_betas - 1, 0)]

\* The replica chains given to sample_states: only arr is read.
SamplePtStates ==
    UNION {[0..(m-1) ->
              {[states |-> f] :
                  f \in [0..(t-1) ->
                           {[arr |-> a, energy |-> 0, energy_init |-> FALSE] :
                               a \in [0..0 -> {-1, 1}]}]}] :
           m \in 1..MaxChains, t \in 1..MaxBetas}

SamplesInit ==
    /\ pc = "samples"
    /\ input \in {[compression_level |-> l] : l \in 0..MaxLevel}
    /\ pt_state \in SamplePtStates
    /\ instance = None /\ state = None /\ ret = None
    /\ g = None /\ replica1 = None /\ replica2 = None /\ before = None
    /\ params = None /\ runner = None /\ sweep = 0 /\ chain = 0
    /\ minimum_e = None /\ pt_results = None /\ pt_samples = None
    /\ calls = None /\ seen_min = None
    /\ rng_vec = None /\ workers = None /\ passes = None /\ opt = None

\* PtIcmThermalSamples::new(&beta_vec, ..., compression_level)
ThermalSamplesNew ==
    /\ pc = "samples"
    /\ pt_samples' = [compression_level |-> input.compression_level,
                      samples |-> samples_new(Cardinality(DOMAIN pt_state[0].states),
                                              input.compression_level)]
    /\ pc' = "sampling"
    /\ UNCHANGED <<opt, input, instance, state, ret, icmVars, params, runner, pt_state,
                   sweep, chain, minimum_e, pt_results, calls, seen_min,
                   parVars, passes>>

\* pt_samples.sample_states(pt_state)
SampleStates ==
    /\ pc = "sampling"
    /\ sweep < MaxCalls
    /\ pt_samples' = [pt_samples EXCEPT
                        !.samples = sample_states_full(@, pt_samples.compression_level,
                                                       pt_state)]
    /\ sweep' = sweep + 1
    /\ UNCHANGED <<opt, pc, input, instance, state, ret, icmVars, params, runner,
                   pt_state, chain, minimum_e, pt_results, calls, seen_min,
                   parVars, passes>>

SamplesNext == ThermalSamplesNew \/ SampleStates

SpecSamples == SamplesInit /\ [][SamplesNext]_vars

\* The beta index the claim gives bucket b under a tier, T betas.
BucketBeta(tier, T, b) ==
    IF tier = 0 THEN b ELSE IF tier = 1 THEN T - 1 - b ELSE T - 1

\* C11: there are T buckets under tier 0, floor(T/2) under tier 1 and one
\* under tier 2; after c calls of sample_states on M chains every bucket
\* holds c * M packed states, and entry number j of bucket b is the packed
\* state of chain j mod M at the beta index of the bucket: b under tier 0,
\* T-1-b under tier 1, T-1 under tier 2.
C11_SampleBuckets ==
    pc = "sampling" =>
        LET M    == Cardinality(DOMAIN pt_state)
            T    == Cardinality(DOMAIN pt_state[0].states)
            tier == pt_samples.compression_level
            nb   == IF tier = 0 THEN T ELSE IF tier = 1 THEN T \div 2 ELSE 1
        IN  /\ DOMAIN pt_samples.samples = 0..(nb - 1)
            /\ \A b \in DOMAIN pt_samples.samples :
                  /\ Len(pt_samples.samples[b]) = sweep * M
                  /\ \A j \in 1..(sweep * M) :
                        pt_samples.samples[b][j]
                            = as_bytes(pt_state[(j - 1) % M]
                                         .states[BucketBeta(tier, T, b)].arr)

\* Two calls under tier 1 on two chains over three betas whose coldest and
\* hottest states differ: the one bucket holds the coldest, four times.
C11_Witness ==
    /\ pc = "sampling"
    /\ sweep = 2
    /\ pt_samples.compression_level = 1
    /\ Cardinality(DOMAIN pt_state) = 2
    /\ Cardinality(DOMAIN pt_state[0].states) = 3
    /\ pt_state[0].states[0].arr # pt_state[0].states[2].arr
    /\ Len(pt_samples.samples[0]) = 4

-----------------------------------------------------------------------------
(* The parallel variant: run_parallel and parallel_pt_loop.  An RNG is     *)
(* [seed, pos]: a cyclic sequence of RngPeriod bits, the bits of seed, read *)
(* at pos.  A draw returns the bit and moves pos on by one; jump moves pos *)
(* on without drawing.  The worker of chain c is at workers[c]: the beta   *)
(* index of its next Metropolis sweep, then T for its swap pass, then T+1. *)

RngPeriod == 2

RECURSIVE Pow2(_)
Pow2(n) == IF n = 0 THEN 1 ELSE 2 * Pow2(n - 1)

Seeds == 0..(Pow2(RngPeriod) - 1)

Draw(rng) == (rng.seed \div Pow2(rng.pos)) % 2

Advance(rng) == [rng EXCEPT !.pos = (@ + 1) % RngPeriod]

\* Lines 707-715: rng_vec[c][k] is a clone of rng, and rng jumps after it.
RECURSIVE JumpTimes(_, _)
JumpTimes(rng, n) == IF n = 0 THEN rng ELSE JumpTimes(Advance(rng), n - 1)

new_rng_vec(rng, m, num_betas) ==
    [c \in 0..(m-1) |-> [k \in 0..(num_betas-1) |-> JumpTimes(rng, c * num_betas + k)]]

\* run_parallel up to the call of parallel_pt_loop (lines 697-715).
RunParallel ==
    /\ pc = "runner"
    /\ params.threads > 1
    /\ pt_state' \in generate_init_state(instance, params.num_replica_chains,
                                         Len(runner.beta_vec))
    /\ \E s \in Seeds :
          rng_vec' = new_rng_vec([seed |-> s, pos |-> 0], params.num_replica_chains,
                                 Len(runner.beta_vec))
    /\ pc' = "par_state"
    /\ UNCHANGED <<opt, input, instance, state, ret, icmVars, params, runner, sweep,
                   chain, minimum_e, pt_results, pt_samples, calls, seen_min,
                   workers, passes>>

\* The head of parallel_pt_loop (lines 746-771).
ParLoopBegin ==
    /\ pc = "par_state"
    /\ pt_results' = PtIcmMinResultsNew
    /\ pt_samples' = PtIcmThermalSamplesNew(
                         Len(runner.beta_vec),
                         IF params.sample_limiting.some
                         THEN params.sample_limiting.val ELSE 0)
    /\ minimum_e' = OptNone
    /\ sweep' = 0
    /\ passes' = [icm    |-> 0,
                  sweeps |-> [c \in 0..(params.num_replica_chains - 1) |-> 0],
                  meas   |-> 0]
    /\ pc' = IF params.num_sweeps = 0 THEN "done" ELSE "par_icm"
    /\ UNCHANGED <<opt, input, instance, state, ret, icmVars, params, runner,
                   pt_state, chain, calls, seen_min, parVars>>

\* apply_icm with the draws of one RNG, from pair p and beta index b on:
\* idxs.choose(rng) draws once when idxs is not empty.
RECURSIVE IcmWithRng(_, _, _, _, _, _)
IcmWithRng(pts, graph, lo_idx, p, b, rng) ==
    LET num_chains == Cardinality(DOMAIN pts)
        num_betas  == Cardinality(DOMAIN pts[0].states)
    IN  IF 2 * p + 1 >= num_chains
        THEN [panic |-> FALSE, pt_state |-> pts, rng |-> rng]
        ELSE IF b >= num_betas
        THEN IcmWithRng(pts, graph, lo_idx, p + 1, lo_idx, rng)
        ELSE LET r1   == pts[2 * p].states[b]
                 r2   == pts[2 * p + 1].states[b]
                 m    == Len(NegativeIdxs(Overlap(r1.arr, r2.arr)))
                 k    == IF m = 0 THEN 1 ELSE 1 + (Draw(rng) % m)
                 rng1 == IF m = 0 THEN rng ELSE Advance(rng)
                 r    == houdayer_cluster_move(r1, r2, graph, k)
             IN  IF r.panic
                 THEN [panic |-> TRUE, pt_state |-> pts, rng |-> rng1]
                 ELSE IcmWithRng(
                        [pts EXCEPT ![2 * p].states[b] = r.replica1,
                                    ![2 * p + 1].states[b] = r.replica2],
                        graph, lo_idx, p, b + 1, rng1)

apply_icm_rng(pts, graph, lo_idx, icm, rng) ==
    IF ~icm THEN [panic |-> FALSE, pt_state |-> pts, rng |-> rng]
    ELSE IcmWithRng(pts, graph, lo_idx, 0, lo_idx, rng)

\* self.apply_icm(pt_state, &mut rng_vec[0][0])
ParApplyIcm ==
    /\ pc = "par_icm"
    /\ LET o == apply_icm_rng(pt_state, g, runner.lo_beta_idx, params.icm,
                              rng_vec[0][0])
       IN  /\ pt_state' = o.pt_state
           /\ rng_vec' = [rng_vec EXCEPT ![0][0] = o.rng]
           /\ pc' = IF o.panic THEN "panic" ELSE "par_dispatch"
    /\ passes' = [passes EXCEPT !.icm = @ + 1]
    /\ UNCHANGED <<opt, input, instance, state, ret, icmVars, params, runner, sweep,
                   chain, minimum_e, pt_results, pt_samples, calls, seen_min,
                   workers>>

\* The loop of IsingSampler::sweep with the draws of one RNG: an uphill flip
\* draws once and is accepted on a 0.
RECURSIVE SweepLoopRng(_, _, _, _, _)
SweepLoopRng(inst, arr, i, de, rng) ==
    IF i >= Cardinality(DOMAIN arr) THEN [arr |-> arr, de |-> de, rng |-> rng]
    ELSE LET d    == delta_energy(inst, arr, i)
             dei  == advance_impl(inst, arr, i, d <= 0 \/ Draw(rng) = 0)
             rng1 == IF d <= 0 THEN rng ELSE Advance(rng)
         IN  SweepLoopRng(inst, dei.arr, i + 1,
                          de + (IF dei.de.some THEN dei.de.val ELSE 0), rng1)

\* The swap pass with the draws of the chain's RNGs, pair (k, k+1) on: a
\* swap that is not certain draws once from the RNG of beta index k.
RECURSIVE SwapPassRng(_, _, _, _, _)
SwapPassRng(inst, beta_vec, states, rngs, k) ==
    IF k + 1 >= Cardinality(DOMAIN states) THEN [states |-> states, rngs |-> rngs]
    ELSE LET e0 == energy(inst, states[k])
             e1 == energy(inst, states[k+1])
             x  == (beta_vec[k+1] - beta_vec[k+2]) * (e0.val - e1.val)
             a  == x >= 0 \/ Draw(rngs[k]) = 0
         IN  SwapPassRng(inst, beta_vec,
                         IF a THEN [states EXCEPT ![k] = e1.st, ![k+1] = e0.st]
                              ELSE [states EXCEPT ![k] = e0.st, ![k+1] = e1.st],
                         IF x >= 0 THEN rngs ELSE [rngs EXCEPT ![k] = Advance(@)],
                         k + 1)

\* One step of the worker of a chain at position w: the Metropolis sweep at
\* beta index w, or the swap pass when every beta has been swept.
worker_step(inst, beta_vec, pts, rngs, w) ==
    IF w < Cardinality(DOMAIN pts.states)
    THEN LET st == pts.states[w]
             o  == SweepLoopRng(inst, st.arr, 0, 0, rngs[w])
         IN  [pts  |-> [pts EXCEPT !.states[w] =
                           [st EXCEPT !.arr = o.arr, !.energy = @ + o.de]],
              rngs |-> [rngs EXCEPT ![w] = o.rng]]
    ELSE LET o == SwapPassRng(inst, beta_vec, pts.states, rngs, 0)
         IN  [pts |-> [pts EXCEPT !.states = o.states], rngs |-> o.rngs]

\* Every worker draws from the streams of chain 0.
SharedRngChain(c) == 0

\* The chain whose RNG streams the worker of chain c is given: its own.
RngChain(c) == c

\* pt_chains_sampler.sweep(pt_state, rng_vec), the dispatch: one worker per
\* chain.  before keeps the chains and the streams the workers start from.
ParDispatch ==
    /\ pc = "par_dispatch"
    /\ workers' = [c \in DOMAIN pt_state |-> 0]
    /\ before' = [pt_state |-> pt_state, rng_vec |-> rng_vec]
    /\ pc' = "par_sweep"
    /\ UNCHANGED <<opt, input, instance, state, ret, g, replica1, replica2, params,
                   runner, pt_state, sweep, chain, minimum_e, pt_results,
                   pt_samples, calls, seen_min, rng_vec, passes>>

\* A step of the worker of some chain; the workers run in any order.
WorkerStep ==
    /\ pc = "par_sweep"
    /\ \E c \in DOMAIN workers :
          /\ workers[c] <= Len(runner.beta_vec)
          /\ LET o == worker_step(instance, runner.beta_vec, pt_state[c],
                                  rng_vec[RngChain(c)], workers[c])
             IN  /\ pt_state' = [pt_state EXCEPT ![c] = o.pts]
                 /\ rng_vec' = [rng_vec EXCEPT ![RngChain(c)] = o.rngs]
          /\ workers' = [workers EXCEPT ![c] = @ + 1]
          /\ passes' = IF workers[c] = Len(runner.beta_vec)
                       THEN [passes EXCEPT !.sweeps[c] = @ + 1]
                       ELSE passes
    /\ UNCHANGED <<opt, pc, input, instance, state, ret, icmVars, params, runner,
                   sweep, chain, minimum_e, pt_results, pt_samples, calls,
                   seen_min>>

\* The sweep returns when every worker has finished.
ParJoin ==
    /\ pc = "par_sweep"
    /\ \A c \in DOMAIN workers : workers[c] > Len(runner.beta_vec)
    /\ pc' = "par_measure"
    /\ UNCHANGED <<input, instance, state, ret, icmVars, runVars>>

\* self.apply_measurements(i, ...) of parallel_pt_loop, and the step of its
\* loop.
ParApplyMeasurements ==
    /\ pc = "par_measure"
    /\ LET o == apply_measurements(sweep, pt_state, minimum_e, pt_results,
                                   pt_samples, runner, params, instance)
       IN  /\ pt_state' = o.pt_state
           /\ minimum_e' = o.minimum_e
           /\ pt_results' = o.pt_results
           /\ pt_samples' = o.pt_samples
           /\ calls' = [sweep |-> sweep, measure |-> o.measure,
                        sample_states |-> o.sample_states]
    /\ passes' = [passes EXCEPT !.meas = @ + 1]
    /\ sweep' = sweep + 1
    /\ pc' = IF LoopEnds(sweep, params.num_sweeps) THEN "done" ELSE "par_icm"
    /\ UNCHANGED <<opt, input, instance, state, ret, icmVars, params, runner, chain,
                   seen_min, parVars>>

-----------------------------------------------------------------------------
(* Scenario "loop": pt_icm_minimize on the two-spin instance, two chains   *)
(* over two betas, serial (threads = 1) and parallel (threads = 2).        *)

MaxLoopSweeps == 2

LoopParams ==
    {[num_sweeps |-> ns, warmup_fraction |-> <<0, 1>>, beta |-> <<1, 2>>,
      lo_beta |-> 1, icm |-> TRUE, num_replica_chains |-> 2, threads |-> th,
      sample |-> OptSome(1), sample_states |-> OptNone,
      sample_limiting |-> OptSome(0)] :
        ns \in 0..MaxLoopSweeps, th \in {1, 2}}

LoopInit == RunStart /\ params \in LoopParams

LoopNext ==
    \/ RunNext
    \/ RunParallel
    \/ ParLoopBegin
    \/ ParApplyIcm
    \/ ParDispatch
    \/ WorkerStep
    \/ ParJoin
    \/ ParApplyMeasurements

SpecLoop == LoopInit /\ [][LoopNext]_vars

\* C12: the loop makes exactly num_sweeps iterations, in this order: the
\* ICM pass of iteration i+1 starts only when the measurement pass of
\* iteration i is over, a chain is swept in an iteration only after the ICM
\* pass of that iteration, the measurement pass runs only after every chain
\* has been swept, and a worker is at work only during the sweep step.
C12_LoopOrder ==
    passes # None =>
        /\ \A c \in DOMAIN passes.sweeps :
              /\ passes.meas <= passes.sweeps[c]
              /\ passes.sweeps[c] <= passes.icm
        /\ passes.icm <= passes.meas + 1
        /\ passes.icm <= params.num_sweeps
        /\ passes.meas = sweep
        /\ pc = "done" => passes.meas = params.num_sweeps
        /\ workers # None =>
              \A c \in DOMAIN workers :
                  workers[c] \in 1..Len(runner.beta_vec) => pc = "par_sweep"

\* A parallel run of two iterations that has ended.
C12_Witness ==
    /\ pc = "done"
    /\ params.threads > 1
    /\ params.num_sweeps = 2
    /\ passes.icm = 2
    /\ passes.meas = 2

\* The worker of a chain run alone from position w up to position upto.
RECURSIVE RunWorker(_, _, _, _, _, _)
RunWorker(inst, beta_vec, pts, rngs, w, upto) ==
    IF w >= upto THEN [pts |-> pts, rngs |-> rngs]
    ELSE LET o == worker_step(inst, beta_vec, pts, rngs, w)
         IN  RunWorker(inst, beta_vec, o.pts, o.rngs, w + 1, upto)

\* C13: during and after the parallel sweep step, the states and the RNG
\* streams of every chain are what its worker alone makes of the chain and
\* the streams it was given, whatever the other workers have done so far;
\* the ICM pass of the iteration is over before the first worker starts.
C13_WorkersIndependent ==
    pc \in {"par_sweep", "par_measure"} =>
        /\ passes.icm = sweep + 1
        /\ \A c \in DOMAIN pt_state :
              LET o == RunWorker(instance, runner.beta_vec, before.pt_state[c],
                                 before.rng_vec[c], 0, workers[c])
              IN  /\ pt_state[c] = o.pts
                  /\ rng_vec[c] = o.rngs

\* The worker of chain 1 has finished while the worker of chain 0 has made
\* one step, and both have changed spins and drawn from their streams.
C13_Witness ==
    /\ pc = "par_sweep"
    /\ workers[0] = 1
    /\ workers[1] = Len(runner.beta_vec) + 1
    /\ pt_state[0] # before.pt_state[0]
    /\ pt_state[1] # before.pt_state[1]
    /\ rng_vec[0] # before.rng_vec[0]
    /\ rng_vec[1] # before.rng_vec[1]

-----------------------------------------------------------------------------
(***************************************************************************)
(* The ladder optimizer: pt_optimize_beta (lines 935-1079).                *)
(*                                                                         *)
(* An f32 of the optimizer is a number or NaN.  The values of a ladder are *)
(* kept as logarithms on a grid: LogUnit steps of the grid are a factor 10 *)
(* of beta, so that exp(a ln x + (1-a) ln y) is the weighted mean of the   *)
(* grid values (rounded down to the grid).  Ladders of positive beta only. *)
(* The runs of an iteration (lines 968-971) give the diffusion histograms  *)
(* and round trips from which lines 974-1012 compute the averaged eta: the *)
(* scenario takes every eta vector over EtaVals as an outcome of the runs. *)
(***************************************************************************)

MaxIters == 3

MaxLadder == 3

LadderTop == 100

MaxEta == 1

LogUnit == 100

\* Weights in units of 1/AlphaUnit: 0.2 (lines 947-948), 0.85 and 0.15
\* (line 1043).
AlphaUnit == 20

alpha_init == 4

alpha_end == 4

MomentumKeep == 17

MomentumTake == 3

\* 2.0e-2 of line 1066, in steps of the grid.
ErrBound == 2

NaN == [nan |-> TRUE, val |-> 0]

F32(v) == [nan |-> FALSE, val |-> v]

\* Lines 664-667, called at line 969: every difference is >= 0.0, which a
\* NaN difference is not.
LadderNonDecreasing(beta_vec) ==
    \A k \in 1..(Len(beta_vec) - 1) :
        /\ ~beta_vec[k].nan
        /\ ~beta_vec[k+1].nan
        /\ beta_vec[k+1].val - beta_vec[k].val >= 0

\* Line 959: alpha_init + (i / (num_iters-1)) * (alpha_end - alpha_init) in
\* f32; 0.0 / 0.0 is NaN and NaN * 0.0 is NaN.
step_alpha(i, num_iters) ==
    IF num_iters - 1 = 0
    THEN NaN
    ELSE F32(alpha_init + (i * (alpha_end - alpha_init)) \div (num_iters - 1))

RECURSIVE PartialSum(_, _)
PartialSum(eta, k) ==
    IF k = 0 THEN 0 ELSE PartialSum(eta, k - 1) + eta[k]

\* Line 1013.
eta_sum(eta) == PartialSum(eta, Len(eta))

\* Lines 1021-1024: the sums before every element, then 1.0; kept as
\* numerators over z.
eta_cdf(eta) ==
    [k \in 1..(Len(eta) + 1) |-> PartialSum(eta, k - 1)]

\* Lines 1029-1035: the ladder values at which the CDF, interpolated between
\* the points of the ladder, takes the values k/n; the two ends are the ends
\* of the ladder.
monotonic_divisions(beta_vec, cdf, z, n) ==
    [k \in 1..(n + 1) |->
        IF k = 1 THEN beta_vec[1].val
        ELSE IF k = n + 1 THEN beta_vec[n + 1].val
        ELSE LET y == k - 1
                 j == CHOOSE j \in 1..n :
                         /\ n * cdf[j + 1] >= y * z
                         /\ \A h \in 1..(j - 1) : n * cdf[h + 1] < y * z
             IN  beta_vec[j].val
                 + ((y * z - n * cdf[j]) * (beta_vec[j + 1].val - beta_vec[j].val))
                   \div (n * (cdf[j + 1] - cdf[j]))]

\* Lines 1041-1044: momentum_beta[k] is for ladder index k + 1.
momentum_update(momentum_beta, calc_beta_divs) ==
    [k \in 1..Len(momentum_beta) |->
        (MomentumKeep * momentum_beta[k] + MomentumTake * calc_beta_divs[k + 1])
        \div AlphaUnit]

\* Line 1049.
step_beta(alpha, bp, b1) ==
    IF alpha.nan \/ b1.nan
    THEN NaN
    ELSE F32((alpha.val * bp + (AlphaUnit - alpha.val) * b1.val) \div AlphaUnit)

\* Lines 1035 and 1047-1052: the ends are those of the divisions, the
\* interior values are stepped.
next_beta(alpha, beta_vec, momentum_beta, calc_beta_divs) ==
    [k \in 1..Len(beta_vec) |->
        IF k = 1 \/ k = Len(beta_vec)
        THEN F32(calc_beta_divs[k])
        ELSE step_beta(alpha, momentum_beta[k - 1], beta_vec[k])]

Dist(a, b) == IF a >= b THEN a - b ELSE b - a

RECURSIVE ErrSum(_, _, _)
ErrSum(calc_beta_divs, beta_vec, k) ==
    IF k <= 1 THEN 0
    ELSE ErrSum(calc_beta_divs, beta_vec, k - 1)
         + Dist(calc_beta_divs[k], beta_vec[k].val)

\* Lines 1050, 1053 and 1066: err / nt < 2.0e-2 over the interior values.
converged(calc_beta_divs, beta_vec) ==
    LET nt == Len(beta_vec)
    IN  ErrSum(calc_beta_divs, beta_vec, nt - 1) < ErrBound * nt

skip_breaks(o) ==
    [pc |-> "opt_return", opt |-> [o EXCEPT !.tau_hist = @ + 1]]

\* Lines 1007 and 1014-1017: the round-trip times are kept and the iteration
\* is left by `continue`.
skip_iteration(o) ==
    [pc |-> "opt_loop", opt |-> [o EXCEPT !.i = @ + 1, !.tau_hist = @ + 1]]

\* The averaged eta of lines 1009-1012: one value >= 0 for every interval.
EtaChoices(nt) == [1..(nt - 1) -> 0..MaxEta]

LadderLevels == {0, LadderTop \div 2, LadderTop}

InitLadders ==
    UNION {[1..t -> {F32(v) : v \in LadderLevels}] : t \in 1..MaxLadder}

OptInit ==
    /\ pc = "optimize"
    /\ input \in [num_iters : 0..MaxIters, beta : InitLadders]
    /\ instance = None /\ state = None /\ ret = None
    /\ g = None /\ replica1 = None /\ replica2 = None /\ before = None
    /\ params = None /\ runner = None /\ pt_state = None
    /\ sweep = 0 /\ chain = 0
    /\ minimum_e = None /\ pt_results = None /\ pt_samples = None
    /\ calls = None /\ seen_min = OptNone
    /\ rng_vec = None /\ workers = None /\ passes = None /\ opt = None

\* Lines 943-956: nt - 1 wraps for an empty ladder and the slice 1..nt-1
\* panics for nt = 1.
OptBegin ==
    /\ pc = "optimize"
    /\ IF Len(input.beta) < 2
       THEN pc' = "panic" /\ UNCHANGED <<params, opt>>
       ELSE /\ pc' = "opt_loop"
            /\ params' = [beta |-> input.beta]
            /\ opt' = [i             |-> 0,
                       momentum_beta |-> [k \in 1..(Len(input.beta) - 2) |->
                                             input.beta[k + 1].val],
                       tau_hist      |-> 0,
                       init_states   |-> OptNone]
    /\ UNCHANGED <<input, instance, state, ret, icmVars, runner, pt_state,
                   sweep, chain, minimum_e, pt_results, pt_samples, calls,
                   seen_min, parVars, passes>>

\* Lines 958-1071: one iteration.  before is what the iteration began with.
OptIterate ==
    /\ pc = "opt_loop"
    /\ opt.i < input.num_iters
    /\ LET alpha    == step_alpha(opt.i, input.num_iters)
           beta_vec == params.beta
           nt       == Len(beta_vec)
       IN  IF ~LadderNonDecreasing(beta_vec)
           THEN /\ pc' = "panic"
                /\ UNCHANGED <<params, opt, before>>
           ELSE \E eta \in EtaChoices(nt) :
                  LET z    == eta_sum(eta)
                      calc == monotonic_divisions(beta_vec, eta_cdf(eta), z, nt - 1)
                      mom  == momentum_update(opt.momentum_beta, calc)
                  IN  /\ before' = [beta          |-> beta_vec,
                                    momentum_beta |-> opt.momentum_beta,
                                    i             |-> opt.i,
                                    skipped       |-> z = 0]
                      /\ IF z = 0
                         THEN /\ UNCHANGED params
                              /\ pc' = skip_iteration(opt).pc
                              /\ opt' = skip_iteration(opt).opt
                         ELSE /\ params' = [params EXCEPT !.beta =
                                               next_beta(alpha, beta_vec, mom, calc)]
                              /\ IF converged(calc, beta_vec)
                                 THEN /\ pc' = "opt_return"
                                      /\ opt' = [opt EXCEPT
                                                   !.momentum_beta = mom,
                                                   !.tau_hist = @ + 1,
                                                   !.init_states = OptSome(opt.i)]
                                 ELSE /\ pc' = "opt_loop"
                                      /\ opt' = [opt EXCEPT
                                                   !.i = @ + 1,
                                                   !.momentum_beta = mom,
                                                   !.tau_hist = @ + 1,
                                                   !.init_states = OptSome(opt.i)]
    /\ UNCHANGED <<input, instance, state, ret, g, replica1, replica2, runner,
                   pt_state, sweep, chain, minimum_e, pt_results, pt_samples,
                   calls, seen_min, parVars, passes>>

\* Lines 1073-1078: ndarray::stack has no rows to stack when no iteration
\* was made, and the unwrap panics.
OptReturn ==
    /\ \/ pc = "opt_return"
       \/ pc = "opt_loop" /\ opt.i >= input.num_iters
    /\ IF opt.tau_hist = 0
       THEN pc' = "panic" /\ UNCHANGED ret
       ELSE pc' = "opt_done" /\ ret' = params.beta
    /\ UNCHANGED <<input, instance, state, icmVars, runVars>>

OptNext == OptBegin \/ OptIterate \/ OptReturn

SpecOpt == OptInit /\ [][OptNext]_vars

\* C14: the ladder pt_optimize_beta returns has the length and the two ends
\* of the initial ladder and is non-decreasing, for every number of
\* iterations and every outcome of the runs.
C14_LadderShape ==
    pc = "opt_done" =>
        /\ Len(ret) = Len(input.beta)
        /\ ret[1] = input.beta[1]
        /\ ret[Len(ret)] = input.beta[Len(input.beta)]
        /\ LadderNonDecreasing(ret)

\* C17: an iteration whose eta sum is below epsilon leaves the ladder and the
\* momentum values as they were, and the optimizer goes on to the next
\* iteration: it does not leave the loop before its end.
C17_SkipKeepsLadder ==
    (pc \in {"opt_loop", "opt_return", "opt_done"} /\ before # None /\ before.skipped) =>
        /\ params.beta = before.beta
        /\ opt.momentum_beta = before.momentum_beta
        /\ opt.i = before.i + 1
        /\ pc = "opt_loop" \/ opt.i = input.num_iters

C17_Witness ==
    /\ pc = "opt_loop"
    /\ before # None
    /\ before.skipped
    /\ opt.i < input.num_iters
    /\ Len(params.beta) >= 3
    /\ params.beta # input.beta

-----------------------------------------------------------------------------
(***************************************************************************)
(* Runs with an odd number of replica chains: PtIcmRunner::new (lines      *)
(* 659-693) and apply_icm (lines 847-866).                                 *)
(***************************************************************************)

MaxOddChains == 3

MaxOddSweeps == 1

OddParams ==
    {[num_sweeps |-> ns, warmup_fraction |-> <<1, 2>>, beta |-> <<1>>, lo_beta |-> 1,
      icm |-> icm, num_replica_chains |-> m, threads |-> 1, sample |-> OptNone,
      sample_states |-> OptNone, sample_limiting |-> OptSome(0)] :
        ns \in 1..MaxOddSweeps, icm \in BOOLEAN,
        m \in {c \in 1..MaxOddChains : c % 2 = 1}}

OddInit == RunStart /\ params \in OddParams

SpecOdd == OddInit /\ [][RunNext]_vars

\* C15: with an odd num_replica_chains and icm = true, constructing or
\* running the runner ends in a fatal error: no such run gets past its ICM
\* pass to sweep, measure or finish.
C15_OddChainsFatal ==
    (params.num_replica_chains % 2 = 1 /\ params.icm) =>
        pc \notin {"sweep", "measure", "done"}

-----------------------------------------------------------------------------
(***************************************************************************)
(* Susceptibility coefficients: with_suscept (lines 288-303) and suscept   *)
(* (lines 314-320).  A file is the vector read_txt_vec reads from it, or   *)
(* cannot be opened or read.                                               *)
(***************************************************************************)

MaxCoefLen == 2

MaxFiles == 2

CoefVals == {1, 2}

CoefVectors == UNION {[1..n -> CoefVals] : n \in 0..MaxCoefLen}

SusceptFiles ==
    {[ok |-> TRUE, dvec |-> v] : v \in CoefVectors}
        \cup {[ok |-> FALSE, dvec |-> <<>>]}

SusceptFileLists == UNION {[1..n -> SusceptFiles] : n \in 0..MaxFiles}

\* Lines 294-300: a vector of another length than the bias gets a warning
\* printed, and every vector is pushed.
push_suscept(me, dvec) ==
    [me EXCEPT !.suscept_coefs = Append(@, dvec)]

\* Lines 290-301: File::open and read_txt_vec panic through expect.
RECURSIVE with_suscept(_, _, _)
with_suscept(me, suscept_files, k) ==
    IF k > Len(suscept_files)
    THEN [panic |-> FALSE, me |-> me]
    ELSE IF ~suscept_files[k].ok
    THEN [panic |-> TRUE, me |-> me]
    ELSE with_suscept(push_suscept(me, suscept_files[k].dvec), suscept_files, k + 1)

\* Lines 314-320: zip_eq panics when the two lengths differ.
suscept(inst, overlap, i) ==
    LET w == inst.suscept_coefs[i + 1]
    IN  IF Len(w) # Len(overlap)
        THEN [panic |-> TRUE, chi |-> 0]
        ELSE [panic |-> FALSE,
              chi |-> PartialSum([k \in 1..Len(w) |-> w[k] * overlap[k]], Len(w))]

SusceptInit ==
    /\ pc = "with_suscept"
    /\ input \in [files : SusceptFileLists]
    /\ instance \in {[bias |-> [k \in 1..n |-> 0], suscept_coefs |-> <<>>] :
                        n \in 1..MaxCoefLen}
    /\ state = None /\ ret = None
    /\ g = None /\ replica1 = None /\ replica2 = None /\ before = None
    /\ params = None /\ runner = None /\ pt_state = None
    /\ sweep = 0 /\ chain = 0
    /\ minimum_e = None /\ pt_results = None /\ pt_samples = None
    /\ calls = None /\ seen_min = OptNone
    /\ rng_vec = None /\ workers = None /\ passes = None /\ opt = None

WithSuscept ==
    /\ pc = "with_suscept"
    /\ LET r == with_suscept(instance, input.files, 1)
       IN  IF r.panic
           THEN pc' = "panic" /\ UNCHANGED instance
           ELSE pc' = "suscept" /\ instance' = r.me
    /\ UNCHANGED <<input, state, ret, icmVars, runVars>>

\* instance.suscept(&overlap_vec, k), as measure calls it (line 546).
Suscept ==
    /\ pc = "suscept"
    /\ \E i \in 0..(Len(instance.suscept_coefs) - 1) :
       \E overlap \in [1..Len(instance.bias) -> {-1, 1}] :
          LET r == suscept(instance, overlap, i)
          IN  IF r.panic
              THEN pc' = "panic" /\ UNCHANGED ret
              ELSE pc' = "suscept" /\ ret' = r.chi
    /\ UNCHANGED <<input, instance, state, icmVars, runVars>>

SusceptNext == WithSuscept \/ Suscept

SpecSuscept == SusceptInit /\ [][SusceptNext]_vars

RowFits(file) == Len(file.dvec) = Len(instance.bias)

\* C16: after with_suscept every stored coefficient row has length N: the
\* rows are the vectors of the files of length N, one row each, in file
\* order, and a file of another length adds no row.
C16_RowsOfLengthN ==
    pc = "suscept" =>
        /\ \A k \in 1..Len(instance.suscept_coefs) :
              Len(instance.suscept_coefs[k]) = Len(instance.bias)
        /\ LET fits == SelectSeq(input.files, RowFits)
           IN  instance.suscept_coefs = [k \in 1..Len(fits) |-> fits[k].dvec]

-----------------------------------------------------------------------------
(***************************************************************************)
(* lo_beta_idx: PtIcmRunner::new (lines 659-693) over beta arrays of       *)
(* length T >= 1 and values of lo_beta.                                    *)
(***************************************************************************)

MaxLoBetas == 3

MaxBetaVal == 3

LoBetaArrays == UNION {[1..t -> 1..MaxBetaVal] : t \in 1..MaxLoBetas}

LoParams ==
    {[num_sweeps |-> 1, warmup_fraction |-> <<1, 2>>, beta |-> b, lo_beta |-> lo,
      icm |-> TRUE, num_replica_chains |-> 2, threads |-> 1, sample |-> OptNone,
      sample_states |-> OptNone, sample_limiting |-> OptSome(0)] :
        b \in LoBetaArrays, lo \in 0..(MaxBetaVal + 1)}

LoInit == RunStart /\ params \in LoParams

LoNext == FromInstanceFile \/ PtIcmRunnerNew

SpecLo == LoInit /\ [][LoNext]_vars

\* C18: for a non-decreasing beta array of length T >= 1 and any lo_beta the
\* construction of the runner succeeds, and lo_beta_idx is the smallest
\* index k with beta_k >= lo_beta, or T-1 when there is none; it is always
\* within 0..T-1.
C18_LoBetaIdx ==
    /\ (pc = "panic") => ~NonDecreasing(params.beta)
    /\ (pc = "runner") =>
          LET k == runner.lo_beta_idx
              T == Len(params.beta)
          IN  /\ 0 <= k /\ k <= T - 1
              /\ \A h \in 0..(k - 1) : params.beta[h + 1] < params.lo_beta
              /\ \/ params.beta[k + 1] >= params.lo_beta
                 \/ k = T - 1

C18_Witness ==
    /\ pc = "runner"
    /\ Len(params.beta) = 3
    /\ runner.lo_beta_idx = 2
    /\ params.beta[3] < params.lo_beta

-----------------------------------------------------------------------------
(***************************************************************************)
(* Round-trip tagging of one PT replica chain (PTState of tamc_core), as   *)
(* pt_optimize_beta uses it: round_trips is read at line 979 and           *)
(* reset_tags is called at line 1063.  states[k] is the replica at beta    *)
(* index k (named by the index it started at) and tags[k] is its tag: an   *)
(* accepted swap exchanges states and tags of k and k+1.  After the swap   *)
(* pass the replica at index 0 is retagged toward_max and the one at T-1   *)
(* toward_min, and a replica whose tag flips has made a round trip.        *)
(***************************************************************************)

MaxTagBetas == 3

MaxTagPasses == 3

Tags == {"unseen", "toward_min", "toward_max"}

\* A new chain: no replica has been at an end yet.
new_pt_state(num_betas) ==
    [states      |-> [k \in 0..(num_betas - 1) |-> k],
     tags        |-> [k \in 0..(num_betas - 1) |-> "unseen"],
     round_trips |-> 0]

\* The swaps of one pass, pair after pair from index k on; accept[k] says
\* whether the swap of (k, k+1) is accepted.
RECURSIVE swap_tagged(_, _, _)
swap_tagged(pts, accept, k) ==
    LET num_betas == Cardinality(DOMAIN pts.states)
    IN  IF k + 1 >= num_betas THEN pts
        ELSE swap_tagged(
               IF accept[k]
               THEN [pts EXCEPT !.states[k] = pts.states[k + 1],
                                !.states[k + 1] = pts.states[k],
                                !.tags[k] = pts.tags[k + 1],
                                !.tags[k + 1] = pts.tags[k]]
               ELSE pts,
               accept, k + 1)

retag_counts_unseen(pts) ==
    LET last == Cardinality(DOMAIN pts.states) - 1
        at0  == IF pts.tags[0] # "toward_max" THEN 1 ELSE 0
        atT  == IF pts.tags[last] # "toward_min" THEN 1 ELSE 0
    IN  [pts EXCEPT !.tags[0] = "toward_max",
                    !.tags[last] = "toward_min",
                    !.round_trips = @ + at0 + atT]

\* The retagging at the two ends and the count of the flipped tags.
retag_endpoints(pts) ==
    LET last == Cardinality(DOMAIN pts.states) - 1
        at0  == IF pts.tags[0] = "toward_min" THEN 1 ELSE 0
        atT  == IF pts.tags[last] = "toward_max" THEN 1 ELSE 0
    IN  [pts EXCEPT !.tags[0] = "toward_max",
                    !.tags[last] = "toward_min",
                    !.round_trips = @ + at0 + atT]

\* r.reset_tags()
reset_tags(pts) ==
    [pts EXCEPT !.tags = [k \in DOMAIN pts.tags |-> "unseen"]]

TagsInit ==
    /\ pc = "tags_new"
    /\ input \in [num_betas : 2..MaxTagBetas]
    /\ instance = None /\ state = None /\ ret = None
    /\ g = None /\ replica1 = None /\ replica2 = None /\ before = None
    /\ params = None /\ runner = None /\ pt_state = None
    /\ sweep = 0 /\ chain = 0
    /\ minimum_e = None /\ pt_results = None /\ pt_samples = None
    /\ calls = None /\ seen_min = OptNone
    /\ rng_vec = None /\ workers = None /\ passes = None /\ opt = None

TagsNew ==
    /\ pc = "tags_new"
    /\ pc' = "tags"
    /\ pt_state' = new_pt_state(input.num_betas)
    /\ before' = [op |-> "new", pt_state |-> new_pt_state(input.num_betas)]
    /\ UNCHANGED <<opt, input, instance, state, ret, g, replica1, replica2,
                   params, runner, sweep, chain, minimum_e, pt_results,
                   pt_samples, calls, seen_min, parVars, passes>>

\* The swap pass of one sweep of the chain; sweep counts the passes.
TagsSwapPass ==
    /\ pc = "tags"
    /\ sweep < MaxTagPasses
    /\ \E accept \in [0..(input.num_betas - 2) -> BOOLEAN] :
          pt_state' = retag_endpoints(swap_tagged(pt_state, accept, 0))
    /\ before' = [op |-> "swap", pt_state |-> pt_state]
    /\ sweep' = sweep + 1
    /\ UNCHANGED <<opt, pc, input, instance, state, ret, g, replica1, replica2,
                   params, runner, chain, minimum_e, pt_results,
                   pt_samples, calls, seen_min, parVars, passes>>

\* Lines 1061-1065: the final states of an iteration become the initial
\* states of the next, with their tags reset.
TagsReset ==
    /\ pc = "tags"
    /\ pt_state' = reset_tags(pt_state)
    /\ before' = [op |-> "reset", pt_state |-> pt_state]
    /\ UNCHANGED <<opt, pc, input, instance, state, ret, g, replica1, replica2,
                   params, runner, sweep, chain, minimum_e, pt_results,
                   pt_samples, calls, seen_min, parVars, passes>>

TagsNext == TagsNew \/ TagsSwapPass \/ TagsReset

SpecTags == TagsInit /\ [][TagsNext]_vars

\* Where replica r is, and the tag it carries.
PosOf(pts, r) == CHOOSE k \in DOMAIN pts.states : pts.states[k] = r

TagOf(pts, r) == pts.tags[PosOf(pts, r)]

\* The replicas that come to an end of the ladder carrying the tag given at
\* the other end.
RoundTrippers(old, new) ==
    LET last == Cardinality(DOMAIN new.states) - 1
    IN  {r \in 0..last :
            \/ PosOf(new, r) = 0 /\ TagOf(old, r) = "toward_min"
            \/ PosOf(new, r) = last /\ TagOf(old, r) = "toward_max"}

\* C19: every tag starts as unseen; a swap pass changes the tag of a replica
\* only if the replica is then at beta_0 (to toward_max) or at beta_{T-1} (to
\* toward_min); the round-trip counter grows by one for every replica that
\* came to an end carrying the other end's tag and for no other; a reset
\* makes every tag unseen.
C19_TagMachine ==
    (pc = "tags") =>
        LET last == input.num_betas - 1
            old  == before.pt_state
        IN  /\ before.op = "new" =>
                  /\ \A k \in 0..last : pt_state.tags[k] = "unseen"
                  /\ pt_state.round_trips = 0
            /\ before.op = "swap" =>
                  /\ \A r \in 0..last :
                        TagOf(pt_state, r) # TagOf(old, r) =>
                            \/ PosOf(pt_state, r) = 0
                               /\ TagOf(pt_state, r) = "toward_max"
                            \/ PosOf(pt_state, r) = last
                               /\ TagOf(pt_state, r) = "toward_min"
                  /\ pt_state.round_trips =
                        old.round_trips + Cardinality(RoundTrippers(old, pt_state))
            /\ before.op = "reset" =>
                  /\ \A k \in 0..last : pt_state.tags[k] = "unseen"
                  /\ pt_state.round_trips = old.round_trips

C19_Witness ==
    /\ pc = "tags"
    /\ input.num_betas = 3
    /\ before.op = "swap"
    /\ pt_state.round_trips = before.pt_state.round_trips + 1
    /\ \E k \in 0..2 : before.pt_state.tags[k] = "unseen"

-----------------------------------------------------------------------------
(***************************************************************************)
(* The energy cache of a state: energy and energy_init under every         *)
(* operation that writes them.  Two replicas of an instance loaded in      *)
(* Ising mode (symmetric adjacency, no self-loop) take, in any order,      *)
(* random-state generation, Metropolis sweeps, single-site advance steps,  *)
(* Houdayer moves, PT swaps (the two replicas as neighbours of a ladder)   *)
(* and energy calls.  sweep counts the operations; before is the operation *)
(* made last and what the cache of replica1 was before it.                 *)
(***************************************************************************)

MaxCacheOps == 3

\* The instance files: the two-spin instance of the runs and a chain of
\* three spins.
CacheInputs ==
    {RunInput,
     [n |-> 3, file |-> (<<0, 1>> :> 4 @@ <<1, 2>> :> -1), how |-> "ising"]}

cacheRest == <<opt, input, instance, state, g, params, runner, pt_state,
               chain, minimum_e, pt_results, pt_samples, calls, seen_min,
               rng_vec, workers, passes>>

advance_drops_de(inst, st, mv, accept) ==
    [st EXCEPT !.arr = advance_impl(inst, st.arr, mv, accept).arr]

\* IsingSampler::advance (lines 182-186) for the drawn site mv:
\* state.energy += de.unwrap_or(0.0), the flag untouched.
IsingSamplerAdvance(inst, st, mv, accept) ==
    LET de == advance_impl(inst, st.arr, mv, accept)
    IN  [st EXCEPT !.arr = de.arr,
                   !.energy = @ + (IF de.de.some THEN de.de.val ELSE 0)]

CacheInit ==
    /\ pc = "input"
    /\ input \in CacheInputs
    /\ instance = None
    /\ state = None
    /\ ret = None
    /\ g = None /\ replica1 = None /\ replica2 = None /\ before = None
    /\ RunIdle

CacheStep(op, r1, r2) ==
    /\ pc = "replicas"
    /\ sweep < MaxCacheOps
    /\ sweep' = sweep + 1
    /\ replica1' = r1
    /\ replica2' = r2
    /\ before' = [op    |-> op,
                  init  |-> replica1.energy_init,
                  stale |-> replica1.energy # energy_ref(instance, replica1.arr)]

\* rand_ising_state(rng, instance) for one of the replicas.
CacheRandState ==
    /\ pc = "replicas"
    /\ \E st \in RandStates(instance) :
          \/ CacheStep("rand", st, replica2)
          \/ CacheStep("rand", replica1, st)
    /\ UNCHANGED <<pc, ret, cacheRest>>

\* sampler.sweep(state, rng) on one of the replicas.
CacheSweep ==
    /\ pc = "replicas"
    /\ \/ \E st \in IsingSamplerSweep(instance, replica1) :
             CacheStep("sweep", st, replica2)
       \/ \E st \in IsingSamplerSweep(instance, replica2) :
             CacheStep("sweep", replica1, st)
    /\ UNCHANGED <<pc, ret, cacheRest>>

\* sampler.advance(state, rng) on one of the replicas.
CacheAdvance ==
    /\ pc = "replicas"
    /\ \E mv \in 0..(size(instance) - 1) :
          \/ \E a \in AcceptChoices(delta_energy(instance, replica1.arr, mv)) :
                CacheStep("advance",
                          IsingSamplerAdvance(instance, replica1, mv, a), replica2)
          \/ \E a \in AcceptChoices(delta_energy(instance, replica2.arr, mv)) :
                CacheStep("advance", replica1,
                          IsingSamplerAdvance(instance, replica2, mv, a))
    /\ UNCHANGED <<pc, ret, cacheRest>>

\* houdayer_cluster_move(replica1, replica2, g, rng)
CacheHoudayer ==
    /\ pc = "replicas"
    /\ \E k \in SeedChoices(replica1, replica2) :
          LET r == houdayer_cluster_move(replica1, replica2, g, k)
          IN  /\ ~r.panic
              /\ CacheStep("houdayer", r.replica1, r.replica2)
              /\ ret' = [op |-> "houdayer", some |-> r.some, val |-> 0]
    /\ UNCHANGED <<pc, cacheRest>>

\* The swap pass of a ladder of two whose states are the two replicas.
CacheSwap ==
    /\ pc = "replicas"
    /\ \E s \in SwapPass(instance, <<1, 2>>, (0 :> replica1 @@ 1 :> replica2), 0) :
          CacheStep("swap", s[0], s[1])
    /\ UNCHANGED <<pc, ret, cacheRest>>

\* instance.energy(state) on replica1.
CacheEnergy ==
    /\ pc = "replicas"
    /\ LET e == energy(instance, replica1)
       IN  /\ CacheStep("energy", e.st, replica2)
           /\ ret' = [op |-> "energy", some |-> TRUE, val |-> e.val]
    /\ UNCHANGED <<pc, cacheRest>>

CacheNext ==
    \/ FromInstanceFile
    \/ NewRunnerGraph
    \/ GenerateInitState
    \/ CacheRandState
    \/ CacheSweep
    \/ CacheAdvance
    \/ CacheHoudayer
    \/ CacheSwap
    \/ CacheEnergy

SpecCache == CacheInit /\ [][CacheNext]_vars

CacheHolds(st) == st.energy_init => st.energy = energy_ref(instance, st.arr)

\* C20: on an instance with symmetric, self-loop-free adjacency, after any
\* sequence of the operations a replica whose cache-validity flag is set has
\* the energy_ref of its spins as cached energy; a Houdayer move that
\* returned a cluster has cleared the flag of both replicas, and an energy
\* call on a replica with a cleared flag returns energy_ref and sets it.
C20_CacheValid ==
    (pc = "replicas") =>
        /\ CacheHolds(replica1)
        /\ CacheHolds(replica2)
        /\ (before # None /\ before.op = "houdayer" /\ ret.some) =>
              ~replica1.energy_init /\ ~replica2.energy_init
        /\ (before # None /\ before.op = "energy") =>
              /\ replica1.energy_init
              /\ ret.val = energy_ref(instance, replica1.arr)

C20_Witness ==
    /\ pc = "replicas"
    /\ before # None
    /\ before.op = "energy"
    /\ ~before.init
    /\ before.stale
    /\ replica1.energy_init

-----------------------------------------------------------------------------
(***************************************************************************)
(* The cluster of a Houdayer move: houdayer_cluster_move (lines 375-421)   *)
(* on the graph PtIcmRunner::new builds (lines 685-688), over instances    *)
(* with and without spins that have no coupling.  before keeps the two     *)
(* replicas as they were and the seed that was drawn (-1 when none).       *)
(***************************************************************************)

\* The instance files: the two-spin instance of the runs, a chain of three
\* spins, three spins of which the middle one has no coupling, three spins
\* of which the last one has no coupling, and two spins with no coupling.
ClusterInputs ==
    {RunInput,
     [n |-> 3, file |-> (<<0, 1>> :> 4 @@ <<1, 2>> :> -1), how |-> "ising"],
     [n |-> 3, file |-> (<<0, 2>> :> 4), how |-> "ising"],
     [n |-> 3, file |-> (<<0, 1>> :> 4), how |-> "ising"],
     [n |-> 2, file |-> (<<0, 0>> :> -1), how |-> "ising"]}

ClusterInit ==
    /\ pc = "input"
    /\ input \in ClusterInputs
    /\ instance = None
    /\ state = None
    /\ ret = None
    /\ g = None /\ replica1 = None /\ replica2 = None /\ before = None
    /\ RunIdle

\* houdayer_cluster_move(replica1, replica2, &self.g, rng)
ClusterMove ==
    /\ pc = "replicas"
    /\ \E k \in SeedChoices(replica1, replica2) :
          LET idxs == NegativeIdxs(Overlap(replica1.arr, replica2.arr))
              r    == houdayer_cluster_move(replica1, replica2, g, k)
          IN  /\ replica1' = r.replica1
              /\ replica2' = r.replica2
              /\ ret' = [op |-> "houdayer", some |-> r.some, nodes |-> r.nodes]
              /\ pc' = IF r.panic THEN "panic" ELSE "moved"
              /\ before' = [replica1 |-> replica1, replica2 |-> replica2,
                            seed |-> IF idxs = <<>> THEN -1 ELSE idxs[k]]
    /\ UNCHANGED <<input, instance, state, g, runVars>>

ClusterNext ==
    \/ FromInstanceFile
    \/ NewRunnerGraph
    \/ GenerateInitState
    \/ ClusterMove

SpecCluster == ClusterInit /\ [][ClusterNext]_vars

SymmetricGraph(graph) ==
    \A a \in DOMAIN graph.neighbors : \A b \in Range(graph.neighbors[a]) :
        a \in Range(graph.neighbors[b])

\* The neighbours of node a with q = -1 (none for an index the graph has no
\* node for).
NegativeNeighbors(graph, overlap, a) ==
    IF a \in DOMAIN graph.neighbors
    THEN {m \in Range(graph.neighbors[a]) : overlap[m] = -1}
    ELSE {}

\* The least set that holds S and every neighbour with q = -1 of a member.
RECURSIVE Grow(_, _, _)
Grow(graph, overlap, S) ==
    LET T == S \cup UNION {NegativeNeighbors(graph, overlap, a) : a \in S}
    IN  IF T = S THEN S ELSE Grow(graph, overlap, T)

\* C21: on a symmetric graph, the cluster a Houdayer move returns is the set
\* of the indices reachable from the seed along edges through indices with
\* q = -1: it holds the seed, all its members have q = -1 and none of them
\* has a neighbour with q = -1 outside it; the two replicas have exchanged
\* their spins at the indices of the cluster and at no other.
C21_ClusterIsComponent ==
    (MovedCluster /\ SymmetricGraph(g)) =>
        LET q == Overlap(before.replica1.arr, before.replica2.arr)
            C == ret.nodes
        IN  /\ C = Grow(g, q, {before.seed})
            /\ before.seed \in C
            /\ \A i \in C : q[i] = -1
            /\ \A i \in C : NegativeNeighbors(g, q, i) \subseteq C
            /\ \A i \in DOMAIN replica1.arr :
                  IF i \in C
                  THEN /\ replica1.arr[i] = before.replica2.arr[i]
                       /\ replica2.arr[i] = before.replica1.arr[i]
                  ELSE /\ replica1.arr[i] = before.replica1.arr[i]
                       /\ replica2.arr[i] = before.replica2.arr[i]

\* The whole chain of three was swapped from the seed at its end, on
\* replicas that disagree everywhere.
C21_Witness ==
    /\ MovedCluster
    /\ SymmetricGraph(g)
    /\ before.seed = 0
    /\ ret.nodes = {0, 1, 2}

\* C23: on every instance of size N >= 1, with or without spins that have
\* no coupling, the Houdayer move completes without failure for every pair
\* of states, and a seed without a neighbour with q = -1 gives the cluster
\* {seed}.
C23_MoveCompletes ==
    (pc \in {"moved", "panic"}) =>
        /\ pc = "moved"
        /\ (/\ ret.some
            /\ NegativeNeighbors(g, Overlap(before.replica1.arr, before.replica2.arr),
                                 before.seed) = {})
           => ret.nodes = {before.seed}

-----------------------------------------------------------------------------
(***************************************************************************)
(* The frame of an ICM pass: apply_icm (lines 847-866) on runs of two,     *)
(* three and four chains.  before is pt_state as the pass found it; sweep  *)
(* counts the passes.                                                      *)
(***************************************************************************)

MaxIcmPasses == 2

\* Four chains at one beta, three chains at one beta, and two chains on a
\* ladder of two of which only the colder one has lo_beta.
IcmPassParams ==
    {[num_sweeps |-> MaxIcmPasses, warmup_fraction |-> <<1, 2>>, beta |-> s.beta,
      lo_beta |-> s.lo_beta, icm |-> icm, num_replica_chains |-> s.chains,
      threads |-> 1, sample |-> OptNone, sample_states |-> OptNone,
      sample_limiting |-> OptSome(0)] :
        icm \in BOOLEAN,
        s \in {[chains |-> 4, beta |-> <<1>>, lo_beta |-> 1],
               [chains |-> 3, beta |-> <<1>>, lo_beta |-> 1],
               [chains |-> 2, beta |-> <<1, 2>>, lo_beta |-> 2]}}

IcmPassInit == RunStart /\ params \in IcmPassParams

\* self.apply_icm(pt_state, rng)
IcmPass ==
    /\ pc = "icm"
    /\ sweep < MaxIcmPasses
    /\ \E o \in apply_icm(pt_state, g, runner.lo_beta_idx, params.icm) :
          /\ pt_state' = o.pt_state
          /\ pc' = IF o.panic THEN "panic" ELSE "icm"
    /\ before' = [pt_state |-> pt_state]
    /\ sweep' = sweep + 1
    /\ UNCHANGED <<opt, input, instance, state, ret, g, replica1, replica2,
                   params, runner, chain, minimum_e, pt_results, pt_samples,
                   calls, seen_min, parVars, passes>>

IcmPassNext ==
    \/ FromInstanceFile
    \/ PtIcmRunnerNew
    \/ RunGenerateInitState
    \/ PtLoopBegin
    \/ IcmPass

SpecIcmPass == IcmPassInit /\ [][IcmPassNext]_vars

\* The replica of chain c at beta index k, before and after the pass.
OldReplica(c, k) == before.pt_state[c].states[k]

NewReplica(c, k) == pt_state[c].states[k]

\* The spins of the chains a and b at beta index k are as they were, or
\* have changed places, at every spin index.
ExchangedWithin(a, b, k) ==
    \A i \in DOMAIN NewReplica(a, k).arr :
        \/ /\ NewReplica(a, k).arr[i] = OldReplica(a, k).arr[i]
           /\ NewReplica(b, k).arr[i] = OldReplica(b, k).arr[i]
        \/ /\ NewReplica(a, k).arr[i] = OldReplica(b, k).arr[i]
           /\ NewReplica(b, k).arr[i] = OldReplica(a, k).arr[i]

\* C22: an ICM pass changes nothing when icm is false; when icm is true it
\* leaves every replica at a beta index below lo_beta_idx as it was (spins,
\* cached energy, flag), leaves a chain without partner as it was, and at
\* the other beta indices only exchanges spins between the chains 2j and
\* 2j+1 at the same beta index and the same spin index.
C22_IcmFrame ==
    (pc = "icm" /\ before # None) =>
        LET chains == params.num_replica_chains
            betas  == Len(runner.beta_vec)
        IN  /\ ~params.icm => pt_state = before.pt_state
            /\ \A c \in 0..(chains - 1) : \A k \in 0..(betas - 1) :
                  k < runner.lo_beta_idx => NewReplica(c, k) = OldReplica(c, k)
            /\ \A j \in 0..((chains \div 2) - 1) : \A k \in 0..(betas - 1) :
                  ExchangedWithin(2 * j, 2 * j + 1, k)
            /\ \A c \in 0..(chains - 1) : \A k \in 0..(betas - 1) :
                  c >= 2 * (chains \div 2) => NewReplica(c, k) = OldReplica(c, k)

\* A pass with icm = true on a ladder of two changed the replicas at the
\* colder beta and found the warmer ones disagreeing and left them.
C22_Witness ==
    /\ pc = "icm"
    /\ before # None
    /\ params.icm
    /\ runner.lo_beta_idx = 1
    /\ NewReplica(0, 1).arr # OldReplica(0, 1).arr
    /\ OldReplica(0, 0).arr # OldReplica(1, 0).arr

-----------------------------------------------------------------------------
(***************************************************************************)
(* The num_measurements field of PtIcmMinResults (lines 447 and 461) in    *)
(* the runs of the schedule.  measure pushes one energy per chain at every *)
(* beta, so pt_samples.e counts the measurement passes of the run.         *)
(***************************************************************************)

\* C24: at the end of a run, num_measurements of the ground-state results
\* is the number of sweeps at which the measurement pass was performed.
C24_MeasurementsCounted ==
    (pc = "done" /\ pt_results # None) =>
        \A k \in DOMAIN pt_samples.e :
            pt_results.num_measurements * params.num_replica_chains
                = pt_samples.e[k]

=============================================================================
